---- MODULE Spec2Model ----
(***************************************************************************)
(* Model of the document store of stormlightlabs/writer                    *)
(* (crates/store/src/lib.rs, crates/core/src/lib.rs).                      *)
(*                                                                         *)
(* State: the registered locations, the filesystem below the location      *)
(* roots (plus the area outside of every root), the `documents` catalog    *)
(* table and the `docs_fts` full-text table.                               *)
(*                                                                         *)
(* Strings are sequences of one-character strings, so that the string      *)
(* operations of the code (path normalisation, SQL LIKE with ESCAPE,       *)
(* substr, starts_with, extension lookup) are computed as the code         *)
(* computes them.  An Option is a sequence of length 0 (None) or 1 (Some). *)
(*                                                                         *)
(* Not modelled: the `updated_at` column (a wall-clock stamp written by    *)
(* every catalog write), symbolic links, I/O errors of the filesystem and  *)
(* SQL errors other than PRIMARY KEY conflicts.  The filesystem is         *)
(* case-sensitive (as on Linux).                                           *)
(***************************************************************************)
EXTENDS Naturals, Integers, Sequences, FiniteSets, TLC

(***************************************************************************)
(* Bounds                                                                  *)
(***************************************************************************)
\* number of store API calls in one run of the sequential specification
MaxOps == 3
\* number of out-of-band filesystem changes in one run
MaxExt == 1
MaxConcOps == 2
MaxSegs == 4

(***************************************************************************)
(* Strings                                                                 *)
(***************************************************************************)
None == << >>
Some(x) == << x >>
IsSome(o) == Len(o) = 1

SLASH == "/"

\* char::to_lowercase / SQLite's ASCII case folding, over the letters used
ToLowerChar(c) ==
    CASE c = "A" -> "a"
      [] c = "B" -> "b"
      [] c = "D" -> "d"
      [] c = "F" -> "f"
      [] c = "M" -> "m"
      [] c = "N" -> "n"
      [] c = "T" -> "t"
      [] c = "X" -> "x"
      [] OTHER -> c

ToLower(s) == [i \in 1..Len(s) |-> ToLowerChar(s[i])]

StartsWith(s, p) == Len(p) <= Len(s) /\ SubSeq(s, 1, Len(p)) = p

\* SQL substr(s, from): the suffix of s starting at the 1-based index from
Substr(s, from) == SubSeq(s, from, Len(s))

\* str::contains
Contains(s, p) ==
    \E i \in 1..(Len(s) + 1) : i + Len(p) - 1 <= Len(s) /\ SubSeq(s, i, i + Len(p) - 1) = p

\* positions of c in s
Positions(s, c) == {i \in 1..Len(s) : s[i] = c}

Max(S) == CHOOSE m \in S : \A k \in S : k <= m
Min(S) == CHOOSE m \in S : \A k \in S : m <= k

\* the segments of s between separators, empty segments dropped
RECURSIVE SplitSlash(_)
SplitSlash(s) ==
    IF s = << >> THEN << >>
    ELSE LET ps == Positions(s, SLASH) IN
         IF ps = {} THEN << s >>
         ELSE LET i == Min(ps)
                  head == SubSeq(s, 1, i - 1)
                  rest == SplitSlash(SubSeq(s, i + 1, Len(s)))
              IN IF head = << >> THEN rest ELSE << head >> \o rest

RECURSIVE JoinSlash(_)
JoinSlash(segs) ==
    IF segs = << >> THEN << >>
    ELSE IF Len(segs) = 1 THEN segs[1]
    ELSE segs[1] \o << SLASH >> \o JoinSlash(Tail(segs))

\* PathBuf::join of two relative paths
JoinPath(a, b) == IF a = << >> THEN b ELSE IF b = << >> THEN a ELSE a \o << SLASH >> \o b

DOT == << "." >>
DOTDOT == << ".", "." >>

IsAbsolute(raw) == raw # << >> /\ raw[1] = SLASH

(***************************************************************************)
(* Paths (crates/core/src/lib.rs, std::path)                               *)
(***************************************************************************)
PathOk(p) == [ok |-> TRUE, err |-> "", path |-> p]
PathErr(e) == [ok |-> FALSE, err |-> e, path |-> << >>]

\* a mutant of NormalizeWalk: a ParentDir with nothing to pop is skipped
RECURSIVE NormalizeWalkClamped(_, _)
NormalizeWalkClamped(segs, acc) ==
    IF segs = << >> THEN
        IF acc = << >> THEN PathErr("EmptyPath") ELSE PathOk(JoinSlash(acc))
    ELSE IF segs[1] = DOT THEN NormalizeWalkClamped(Tail(segs), acc)
    ELSE IF segs[1] = DOTDOT THEN
        NormalizeWalkClamped(Tail(segs), SubSeq(acc, 1, Len(acc) - 1))
    ELSE NormalizeWalkClamped(Tail(segs), Append(acc, segs[1]))

\* the walk over the components: Normal pushes, CurDir is skipped, ParentDir
\* pops and fails when nothing is left to pop
RECURSIVE NormalizeWalk(_, _)
NormalizeWalk(segs, acc) ==
    IF segs = << >> THEN
        IF acc = << >> THEN PathErr("EmptyPath") ELSE PathOk(JoinSlash(acc))
    ELSE IF segs[1] = DOT THEN NormalizeWalk(Tail(segs), acc)
    ELSE IF segs[1] = DOTDOT THEN
        IF acc = << >> THEN PathErr("PathTraversalAttempt")
        ELSE NormalizeWalk(Tail(segs), SubSeq(acc, 1, Len(acc) - 1))
    ELSE NormalizeWalk(Tail(segs), Append(acc, segs[1]))

normalize_relative_path(raw) ==
    IF raw = << >> THEN PathErr("EmptyPath")
    ELSE IF IsAbsolute(raw) THEN PathErr("InvalidPath")
    ELSE NormalizeWalk(SplitSlash(raw), << >>)

\* From<PathError> for AppError: every PathError becomes ErrorCode::InvalidPath
PathErrorCode(e) == "InvalidPath"

\* Path::parent of a relative path ("" when it has one segment)
ParentOf(p) ==
    LET segs == SplitSlash(p) IN
    IF segs = << >> THEN << >> ELSE JoinSlash(SubSeq(segs, 1, Len(segs) - 1))

\* Path::file_name
FileNameOf(p) ==
    LET segs == SplitSlash(p) IN IF segs = << >> THEN << >> ELSE segs[Len(segs)]

\* Path::extension: after the last dot of the file name; none when there is
\* no dot or the only dot is the first character
ExtensionOf(p) ==
    LET n == FileNameOf(p)
        ds == Positions(n, ".") \ {1}
    IN IF n = DOTDOT \/ ds = {} THEN << >> ELSE Substr(n, Max(ds) + 1)

\* Path::file_stem
FileStemOf(p) ==
    LET n == FileNameOf(p)
        ds == Positions(n, ".") \ {1}
    IN IF n = DOTDOT \/ ds = {} THEN n ELSE SubSeq(n, 1, Max(ds) - 1)

INDEXABLE_EXTENSIONS ==
    { <<"m","d">>, <<"m","a","r","k","d","o","w","n">>, <<"m","d","x">>, <<"t","x","t">> }

is_indexable_text_path(p) == ToLower(ExtensionOf(p)) \in INDEXABLE_EXTENSIONS

CONFLICT_PATTERNS ==
    { <<"(","c","o","n","f","l","i","c","t",")">>,
      <<"'","s"," ","c","o","n","f","l","i","c","t","e","d"," ","c","o","p","y">>,
      <<".","c","o","n","f","l","i","c","t","e","d"," ","c","o","p","y">>,
      <<" ","(","c","o","n","f","l","i","c","t","e","d"," ","c","o","p","y">>,
      <<" ","c","o","n","f","l","i","c","t","e","d"," ","c","o","p","y",")">>,
      <<"(","c","o","n","f","l","i","c","t","e","d"," ","c","o","p","y">> }

is_conflicted_filename(name) ==
    \E pat \in CONFLICT_PATTERNS : Len(pat) <= Len(name) /\ Contains(ToLower(name), pat)

(***************************************************************************)
(* SQL LIKE ... ESCAPE '\' as SQLite evaluates it: % matches any run of    *)
(* characters, _ any one character, the escape character makes the next    *)
(* character literal, and letters compare without regard to ASCII case     *)
(* (the store sets no case_sensitive_like pragma).                         *)
(***************************************************************************)
ESC == "\\"

RECURSIVE LikeMatch(_, _)
LikeMatch(pat, s) ==
    IF pat = << >> THEN s = << >>
    ELSE IF pat[1] = ESC THEN
        /\ Len(pat) >= 2
        /\ s # << >>
        /\ ToLowerChar(pat[2]) = ToLowerChar(s[1])
        /\ LikeMatch(Substr(pat, 3), Tail(s))
    ELSE IF pat[1] = "%" THEN
        \E k \in 0..Len(s) : LikeMatch(Tail(pat), Substr(s, k + 1))
    ELSE IF pat[1] = "_" THEN
        s # << >> /\ LikeMatch(Tail(pat), Tail(s))
    ELSE
        /\ s # << >>
        /\ ToLowerChar(pat[1]) = ToLowerChar(s[1])
        /\ LikeMatch(Tail(pat), Tail(s))

\* prefix.replace('\\', r"\\").replace('%', r"\%").replace('_', r"\_")
RECURSIVE EscapeLike(_)
EscapeLike(s) ==
    IF s = << >> THEN << >>
    ELSE (IF s[1] \in {ESC, "%", "_"} THEN << ESC, s[1] >> ELSE << s[1] >>)
         \o EscapeLike(Tail(s))

\* format!("{}/%", escaped_prefix)
PrefixLike(prefix) == EscapeLike(prefix) \o << SLASH, "%" >>

\* WHERE rel_path = ?prefix OR rel_path LIKE ?prefix_like ESCAPE '\'
MatchesDirectory(rel, prefix) == rel = prefix \/ LikeMatch(PrefixLike(prefix), rel)

\* SET rel_path = ?new || substr(rel_path, length(?old) + 1)
RewritePrefix(rel, old, new) == new \o Substr(rel, Len(old) + 1)

(***************************************************************************)
(* File contents.  The bytes of a file are a record: `enc` tells how the   *)
(* bytes decode, `words` are the whitespace-separated tokens of the text.  *)
(*   utf8   valid UTF-8 without a byte-order mark                          *)
(*   bad8   no byte-order mark, not valid UTF-8                            *)
(*   bad16  a UTF-16 byte-order mark followed by an unpaired surrogate     *)
(* The token "#" opens a level-1 heading whose text is the next token.     *)
(* The token "FEFF" is the character U+FEFF alone; encoded as UTF-8 it is  *)
(* the three bytes EF BB BF of the UTF-8 byte-order mark.                  *)
(***************************************************************************)
Utf8Bytes(words) == [enc |-> "utf8", words |-> words]

TextA == << "x" >>
TextB == << "#", "y" >>
TextBom == << "FEFF", "x" >>
BytesBad16 == [enc |-> "bad16", words |-> << "BAD" >>]
BytesBad8 == [enc |-> "bad8", words |-> << "x", "BAD" >>]

Decoded(t) == [ok |-> TRUE, text |-> t]
DecodeFailed == [ok |-> FALSE, text |-> << >>]

\* String::from_utf8_lossy: every invalid sequence becomes U+FFFD
Lossy(words) == [i \in 1..Len(words) |-> IF words[i] = "BAD" THEN "FFFD" ELSE words[i]]

\* std::fs::read_to_string: strict UTF-8
read_to_string(bytes) == IF bytes.enc = "utf8" THEN Decoded(bytes.words) ELSE DecodeFailed

\* bytes.starts_with(&[0xef, 0xbb, 0xbf])
StartsWithUtf8Bom(bytes) ==
    bytes.enc = "utf8" /\ Len(bytes.words) > 0 /\ bytes.words[1] = "FEFF"

\* text_utils::detect_and_decode: a UTF-8 byte-order mark is cut off, and only
\* UTF-16 with a byte-order mark can fail
detect_and_decode(bytes) ==
    IF StartsWithUtf8Bom(bytes) THEN Decoded(Lossy(Tail(bytes.words)))
    ELSE IF bytes.enc = "bad16" THEN DecodeFailed
    ELSE Decoded(Lossy(bytes.words))

\* file_utils::read_file_text_with_detection
read_file_text_with_detection(bytes) == detect_and_decode(bytes)

\* text_utils::hash_text: distinct texts have distinct hashes
hash_text(text) == << "hash" >> \o text

\* utils::estimate_word_count: text.split_whitespace().count()
estimate_word_count(text) == Len(text)

\* MarkdownParser::build_metadata: the title is the text of the first level-1 heading
MarkdownTitle(text) ==
    LET hs == {i \in 1..(Len(text) - 1) : text[i] = "#"} IN
    IF hs = {} THEN None ELSE Some(<< text[Min(hs) + 1] >>)

fallback_title_from_path(rel) == Some(FileStemOf(rel))

\* Store::derive_text_metadata (MarkdownEngine::metadata never returns Err)
derive_text_metadata(text, rel) ==
    [title |-> IF IsSome(MarkdownTitle(text)) THEN MarkdownTitle(text) ELSE fallback_title_from_path(rel),
     word_count |-> estimate_word_count(text)]

\* LineEnding::detect: the texts of the model hold no CRLF
LineEndingDetect(text) == "Lf"

\* the tokens unicode61 indexes for a column: punctuation is dropped
Tokens(text) == {text[i] : i \in 1..Len(text)} \ {"#", "FEFF"}

(***************************************************************************)
(* The universe of the model: two roots, and the relative paths used       *)
(***************************************************************************)
Roots == {"R1", "R2"}
OUTSIDE == "outside"

P_f == <<"f",".","m","d">>
P_h == <<"h",".","m","d">>
P_g == <<"g">>
P_u == <<"u",".","m","d">>
D_a == <<"a">>
D_A == <<"A">>
D_ax == <<"a","x">>
D_au == <<"a","_">>
D_n == <<"n">>
D_b == <<"b">>
D_ab == JoinPath(D_a, D_b)

(***************************************************************************)
(* State                                                                   *)
(***************************************************************************)
VARIABLES
    locations,     \* table locations: id -> root_path
    sqlite_sequence, \* table sqlite_sequence: the largest id locations ever had
    app_settings,  \* table app_settings: the values under session_state and last_open_doc
    watchers,      \* AppState.watchers: location id -> the root its watcher watches
    files,         \* the files on disk: <<area, path>> -> [bytes, mtime, created]
    dirs,          \* the directories on disk: a set of <<area, path>>
    clock,         \* the filesystem's time stamp counter
    documents,     \* table documents: <<location_id, rel_path>> -> row
    docs_fts,      \* table docs_fts, a bag: row -> number of copies
    last,          \* the last call of the store API and what it returned
    nops,          \* store API calls made
    exts,          \* out-of-band filesystem changes made
    pc,            \* per thread: the step its current operation is at
    tv             \* per thread: the locals of its current operation

vars == << locations, sqlite_sequence, app_settings, watchers, files, dirs, clock, documents,
           docs_fts, last, nops, exts, pc, tv >>

(***************************************************************************)
(* Functions with a changing domain, and bags                              *)
(***************************************************************************)
Put(f, k, v) == [x \in DOMAIN f \cup {k} |-> IF x = k THEN v ELSE f[x]]
Drop(f, ks) == [x \in DOMAIN f \ ks |-> f[x]]
EmptyFn == [x \in {} |-> 0]

\* table app_settings without a row under either key
NoSettings == [session_state |-> << >>, last_open_doc |-> << >>]

\* F of the value of v, v being computed once
Bind(v, F(_)) == CHOOSE x \in {F(y) : y \in {v}} : TRUE

RECURSIVE SumOver(_, _)
SumOver(f, S) ==
    IF S = {} THEN 0
    ELSE LET x == CHOOSE y \in S : TRUE IN f[x] + SumOver(f, S \ {x})

\* the bag with every row r of bag b replaced by g[r]
BagMap(b, g) ==
    LET img == {g[r] : r \in DOMAIN b} IN
    [r2 \in img |-> SumOver(b, {r \in DOMAIN b : g[r] = r2})]

BagAdd(b, r) == IF r \in DOMAIN b THEN [b EXCEPT ![r] = @ + 1] ELSE Put(b, r, 1)

(***************************************************************************)
(* The filesystem                                                          *)
(***************************************************************************)
RootDir == << >>

IsFile(fs, k) == k \in DOMAIN fs
IsDir(ds, k) == k \in ds
Exists(fs, ds, k) == IsFile(fs, k) \/ IsDir(ds, k)

\* p is d or lies below d
Under(p, d) == p = d \/ d = RootDir \/ StartsWith(p, d \o << SLASH >>)

AncestorsOf(p) ==
    LET segs == SplitSlash(p) IN {JoinSlash(SubSeq(segs, 1, k)) : k \in 0..(Len(segs) - 1)}

\* std::fs::create_dir_all(dir): the directories it leaves on disk
create_dir_all(ds, area, dir) == ds \cup {<<area, a>> : a \in AncestorsOf(dir) \cup {dir}}

\* create_dir_all fails when a file is in the way
CreateDirAllFails(fs, area, dir) == \E a \in AncestorsOf(dir) \cup {dir} : IsFile(fs, <<area, a>>)

\* the place root.join(raw) names, as the operating system resolves it: an
\* absolute raw path replaces the root, and a ".." above the root leaves it
OsResolve(root, raw) ==
    IF IsAbsolute(raw) THEN << OUTSIDE, JoinSlash(SplitSlash(raw)) >>
    ELSE LET n == normalize_relative_path(raw)
             segs == SplitSlash(raw)
         IN IF n.ok THEN << root, n.path >>
            ELSE IF n.err = "EmptyPath" THEN << root, RootDir >>
            ELSE << OUTSIDE, JoinSlash(SelectSeq(segs, LAMBDA x : x \notin {DOT, DOTDOT})) >>

MovedKey(k, from, to) == << to[1], to[2] \o Substr(k[2], Len(from[2]) + 1) >>

\* std::fs::rename(from, to) of a file or of a directory with all below it
RenameFiles(fs, from, to) ==
    LET moved == {k \in DOMAIN fs : k[1] = from[1] /\ Under(k[2], from[2])}
        kept == DOMAIN fs \ moved
    IN [k2 \in kept \cup {MovedKey(k, from, to) : k \in moved} |->
            IF k2 \in kept THEN fs[k2]
            ELSE fs[CHOOSE k \in moved : MovedKey(k, from, to) = k2]]

RenameDirs(ds, from, to) ==
    LET moved == {k \in ds : k[1] = from[1] /\ Under(k[2], from[2])}
    IN (ds \ moved) \cup {MovedKey(k, from, to) : k \in moved}

\* std::fs::remove_dir_all
RemoveTreeFiles(fs, d) == Drop(fs, {k \in DOMAIN fs : k[1] = d[1] /\ Under(k[2], d[2])})
RemoveTreeDirs(ds, d) == {k \in ds : ~(k[1] = d[1] /\ Under(k[2], d[2]))}

NewFile(bytes, now) == [bytes |-> bytes, mtime |-> now, created |-> now]

\* file_utils::collect_file_paths_recursive: the relative paths of the files under root
collect_file_paths_recursive(fs, root) == {k[2] : k \in {x \in DOMAIN fs : x[1] = root}}

(***************************************************************************)
(* Catalog metadata                                                        *)
(***************************************************************************)
\* Store::read_doc_metadata: the text is read (strictly, as UTF-8) only for
\* indexable extensions; encoding and line ending are the defaults
read_doc_metadata(file, rel, filename) ==
    LET text_content ==
            IF is_indexable_text_path(rel) THEN read_to_string(file.bytes) ELSE DecodeFailed
        derived == derive_text_metadata(text_content.text, rel)
    IN [filename |-> filename,
        size_bytes |-> Len(file.bytes.words),
        mtime |-> file.mtime,
        created_at |-> Some(file.created),
        content_hash |-> IF text_content.ok THEN Some(hash_text(text_content.text)) ELSE None,
        encoding |-> "Utf8",
        line_ending |-> "Lf",
        is_conflict |-> is_conflicted_filename(filename),
        title |-> IF text_content.ok THEN derived.title ELSE fallback_title_from_path(rel),
        word_count |-> IF text_content.ok THEN Some(derived.word_count) ELSE None]

\* the DocMeta doc_save builds from the text it wrote
SaveMeta(file, rel, text) ==
    LET derived == derive_text_metadata(text, rel) IN
    [filename |-> FileNameOf(rel),
     size_bytes |-> Len(file.bytes.words),
     mtime |-> file.mtime,
     created_at |-> Some(file.created),
     content_hash |-> Some(hash_text(text)),
     encoding |-> "Utf8",
     line_ending |-> LineEndingDetect(text),
     is_conflict |-> is_conflicted_filename(rel),
     title |-> derived.title,
     word_count |-> Some(derived.word_count)]

(***************************************************************************)
(* The SQL of the store, one operator per statement or helper              *)
(***************************************************************************)
\* a mutant of update_doc_in_catalog: created_at = excluded.created_at
update_doc_in_catalog_overwrites(docs, key, meta) == Put(docs, key, meta)

\* INSERT INTO documents ... ON CONFLICT(location_id, rel_path) DO UPDATE SET ...,
\* created_at = COALESCE(documents.created_at, excluded.created_at)
update_doc_in_catalog(docs, key, meta) ==
    IF key \in DOMAIN docs
    THEN Put(docs, key, [meta EXCEPT !.created_at =
                            IF IsSome(docs[key].created_at) THEN docs[key].created_at ELSE @])
    ELSE Put(docs, key, meta)

FtsRow(key, title, content) ==
    [location_id |-> key[1], rel_path |-> key[2], title |-> title, content |-> content]

\* DELETE FROM docs_fts WHERE location_id = ?1 AND rel_path = ?2
remove_fts_entry(fts, key) ==
    Drop(fts, {r \in DOMAIN fts : r.location_id = key[1] /\ r.rel_path = key[2]})

\* a mutant of upsert_fts_entry: the insert without the delete before it
upsert_fts_entry_insert_only(fts, key, title, content) == BagAdd(fts, FtsRow(key, title, content))

\* Store::upsert_fts_entry: delete by key, then insert
upsert_fts_entry(fts, key, title, content) ==
    BagAdd(remove_fts_entry(fts, key), FtsRow(key, title, content))

\* a mutant of index_document_text: the extension is not looked at
index_document_text_any_extension(fts, key, meta, text) ==
    upsert_fts_entry(fts, key, IF IsSome(meta.title) THEN meta.title[1] ELSE <<"Untitled">>, text)

\* Store::index_document_text
index_document_text(fts, key, meta, text) ==
    IF ~is_indexable_text_path(key[2]) THEN remove_fts_entry(fts, key)
    ELSE LET title == IF IsSome(meta.title) THEN meta.title[1]
                      ELSE IF IsSome(fallback_title_from_path(key[2]))
                           THEN fallback_title_from_path(key[2])[1]
                           ELSE <<"Untitled">>
         IN upsert_fts_entry(fts, key, title, text)

\* Store::remove_document_from_index, the documents table
remove_document_row(docs, key) == Drop(docs, {key})

\* the rows a directory statement selects:
\* location_id = ? AND (rel_path = ?prefix OR rel_path LIKE ?like ESCAPE '\')
DirDocKeys(docs, l, prefix) == {k \in DOMAIN docs : k[1] = l /\ MatchesDirectory(k[2], prefix)}
DirFtsRows(fts, l, prefix) ==
    {r \in DOMAIN fts : r.location_id = l /\ MatchesDirectory(r.rel_path, prefix)}

RewrittenKey(k, old, new) == << k[1], RewritePrefix(k[2], old, new) >>

\* UPDATE documents SET rel_path = ... fails (and changes nothing) when a row it
\* has rewritten meets the PRIMARY KEY of another row.  A row that will itself
\* be rewritten later is met or not depending on the order SQLite visits rows.
DirUpdateMustFail(docs, l, old, new) ==
    LET sel == DirDocKeys(docs, l, old) IN
    \/ \E k \in sel : RewrittenKey(k, old, new) \in DOMAIN docs \ sel
    \/ \E k1, k2 \in sel : k1 # k2 /\ RewrittenKey(k1, old, new) = RewrittenKey(k2, old, new)

DirUpdateMayFail(docs, l, old, new) ==
    LET sel == DirDocKeys(docs, l, old) IN
    \/ DirUpdateMustFail(docs, l, old, new)
    \/ \E k1, k2 \in sel : k1 # k2 /\ RewrittenKey(k1, old, new) = k2

\* Store::update_directory_paths_in_index, the documents table
update_directory_documents(docs, l, old, new) ==
    LET sel == DirDocKeys(docs, l, old)
        kept == DOMAIN docs \ sel
    IN [k2 \in kept \cup {RewrittenKey(k, old, new) : k \in sel} |->
            IF k2 \in kept THEN docs[k2]
            ELSE docs[CHOOSE k \in sel : RewrittenKey(k, old, new) = k2]]

\* a mutant of update_directory_fts: the index table is left as it was
update_directory_fts_skipped(fts, l, old, new) == fts

\* Store::update_directory_paths_in_index, the docs_fts table
update_directory_fts(fts, l, old, new) ==
    LET sel == DirFtsRows(fts, l, old) IN
    BagMap(fts, [r \in DOMAIN fts |->
                    IF r \in sel THEN [r EXCEPT !.rel_path = RewritePrefix(@, old, new)] ELSE r])

\* a mutant of remove_directory_fts: the index table is left as it was
remove_directory_fts_skipped(fts, l, prefix) == fts

\* Store::remove_directory_from_index
remove_directory_documents(docs, l, prefix) == Drop(docs, DirDocKeys(docs, l, prefix))
remove_directory_fts(fts, l, prefix) == Drop(fts, DirFtsRows(fts, l, prefix))

\* Store::search for one token: the keys of the hits, each with the number of
\* result rows (docs_fts JOIN documents ... WHERE docs_fts MATCH ?)
SearchHits(docs, fts, token) ==
    LET rows == {r \in DOMAIN fts :
                    /\ << r.location_id, r.rel_path >> \in DOMAIN docs
                    /\ token \in Tokens(r.title) \cup Tokens(r.content)}
        keys == {<< r.location_id, r.rel_path >> : r \in rows}
    IN [k \in keys |-> SumOver(fts, {r \in rows : << r.location_id, r.rel_path >> = k})]

(***************************************************************************)
(* The store operations.  Each gives the outcome of one call: the error    *)
(* code or "ok", the value returned, and the disk and the tables it        *)
(* leaves.                                                                 *)
(***************************************************************************)
Outcome(res, val, out, fs, ds, clk, docs, fts) ==
    [res |-> res, val |-> val, out |-> out, files |-> fs, dirs |-> ds, clock |-> clk,
     documents |-> docs, docs_fts |-> fts]

\* the call returns without having changed anything
NoChange(res) == Outcome(res, 0, << >>, files, dirs, clock, documents, docs_fts)

Registered(l) == l \in DOMAIN locations

\* tempfile persist / File::create: the file at k now holds the text
WriteFile(fs, k, text, now) == Put(fs, k, NewFile(Utf8Bytes(text), now))

\* a mutant of doc_save: the rows are written before the file, so that they
\* are there when the write fails
doc_save_rows_first(l, rel, text) ==
    IF ~Registered(l) THEN NoChange("NotFound")
    ELSE LET root == locations[l]
             k == << root, rel >>
             parent == ParentOf(rel)
             now == clock + 1
             fs == WriteFile(files, k, text, now)
             new_meta == SaveMeta(fs[k], rel, text)
             docs == update_doc_in_catalog(documents, << l, rel >>, new_meta)
             fts == index_document_text(docs_fts, << l, rel >>, new_meta, text)
         IN IF CreateDirAllFails(files, root, parent)
            THEN Outcome("Io", 0, << >>, files, dirs, clock, docs, fts)
            ELSE LET ds == create_dir_all(dirs, root, parent) IN
                 IF IsDir(ds, k)
                 THEN Outcome("Io", 0, << >>, files, ds, clock, docs, fts)
                 ELSE Outcome("ok", 1, rel, fs, ds, now, docs, fts)

\* Store::doc_save (SavePolicy::Atomic, the default)
doc_save(l, rel, text) ==
    IF ~Registered(l) THEN NoChange("NotFound")
    ELSE LET root == locations[l]
             k == << root, rel >>
             parent == ParentOf(rel)
         IN IF CreateDirAllFails(files, root, parent) THEN NoChange("Io")
            ELSE LET ds == create_dir_all(dirs, root, parent) IN
                 IF IsDir(ds, k)
                 THEN Outcome("Io", 0, << >>, files, ds, clock, documents, docs_fts)
                 ELSE LET now == clock + 1
                          fs == WriteFile(files, k, text, now)
                          new_meta == SaveMeta(fs[k], rel, text)
                          docs == update_doc_in_catalog(documents, << l, rel >>, new_meta)
                          fts == index_document_text(docs_fts, << l, rel >>, new_meta, text)
                      IN Outcome("ok", 1, rel, fs, ds, now, docs, fts)

\* the DocMeta doc_open builds from the text it decoded
OpenMeta(file, rel, text) ==
    LET derived == derive_text_metadata(text, rel) IN
    [filename |-> FileNameOf(rel),
     size_bytes |-> Len(file.bytes.words),
     mtime |-> file.mtime,
     created_at |-> Some(file.created),
     content_hash |-> Some(hash_text(text)),
     encoding |-> IF StartsWithUtf8Bom(file.bytes) THEN "Utf8WithBom" ELSE "Utf8",
     line_ending |-> LineEndingDetect(text),
     is_conflict |-> is_conflicted_filename(rel),
     title |-> derived.title,
     word_count |-> Some(derived.word_count)]

\* Store::doc_open: the DocContent it returns; nothing is changed
doc_open(l, rel) ==
    IF ~Registered(l) THEN NoChange("NotFound")
    ELSE LET k == << locations[l], rel >> IN
         IF ~Exists(files, dirs, k) THEN NoChange("NotFound")
         ELSE IF IsDir(dirs, k) THEN NoChange("Io")
         ELSE LET decoded == detect_and_decode(files[k].bytes) IN
              IF ~decoded.ok THEN NoChange("Io")
              ELSE Outcome("ok", 1,
                           [text |-> decoded.text, meta |-> OpenMeta(files[k], rel, decoded.text)],
                           files, dirs, clock, documents, docs_fts)

\* what a call leaves in the two tables, with its result and its value
Tables(res, val, docs, fts) == [res |-> res, val |-> val, documents |-> docs, docs_fts |-> fts]

\* Store::reindex_document on the tables docs and fts
reindex_document_in(docs0, fts0, l, rel) ==
    IF ~Registered(l) THEN Tables("NotFound", 0, docs0, fts0)
    ELSE LET k == << locations[l], rel >>
             key == << l, rel >>
         IN IF ~Exists(files, dirs, k)
            THEN Tables("ok", 0, remove_document_row(docs0, key), remove_fts_entry(fts0, key))
            ELSE LET meta == read_doc_metadata(files[k], rel, FileNameOf(rel))
                     docs == update_doc_in_catalog(docs0, key, meta)
                     text == read_file_text_with_detection(files[k].bytes)
                 IN IF ~is_indexable_text_path(rel)
                    THEN Tables("ok", 0, docs, remove_fts_entry(fts0, key))
                    ELSE IF ~text.ok
                    THEN Tables("Io", 0, docs, fts0)
                    ELSE Tables("ok", 0, docs, index_document_text(fts0, key, meta, text.text))

\* Store::reindex_document
reindex_document(l, rel) ==
    Bind(reindex_document_in(documents, docs_fts, l, rel),
         LAMBDA t : Outcome(t.res, 0, << >>, files, dirs, clock, t.documents, t.docs_fts))

\* the body of the loop of reconcile_location_index for one file: the catalog
ScanFileDocuments(docs, l, rel, file) ==
    update_doc_in_catalog(docs, << l, rel >>, read_doc_metadata(file, rel, FileNameOf(rel)))

\* a mutant of ScanFileFts: a file that fails to decode keeps its index row
ScanFileFtsKeepsStale(fts, l, rel, file) ==
    LET text == read_file_text_with_detection(file.bytes) IN
    IF ~is_indexable_text_path(rel) THEN remove_fts_entry(fts, << l, rel >>)
    ELSE IF ~text.ok THEN fts
    ELSE index_document_text(fts, << l, rel >>, read_doc_metadata(file, rel, FileNameOf(rel)), text.text)

\* ... the index
ScanFileFts(fts, l, rel, file) ==
    LET text == read_file_text_with_detection(file.bytes) IN
    IF is_indexable_text_path(rel) /\ text.ok
    THEN index_document_text(fts, << l, rel >>, read_doc_metadata(file, rel, FileNameOf(rel)), text.text)
    ELSE remove_fts_entry(fts, << l, rel >>)

\* ... and whether the file counts as indexed
ScanFileIndexed(rel, file) ==
    IF is_indexable_text_path(rel) /\ read_file_text_with_detection(file.bytes).ok THEN 1 ELSE 0

RECURSIVE ScanDocuments(_, _, _, _)
ScanDocuments(docs, l, root, rels) ==
    IF rels = {} THEN docs
    ELSE LET rel == CHOOSE r \in rels : TRUE IN
         ScanDocuments(ScanFileDocuments(docs, l, rel, files[<< root, rel >>]), l, root, rels \ {rel})

RECURSIVE ScanFts(_, _, _, _)
ScanFts(fts, l, root, rels) ==
    IF rels = {} THEN fts
    ELSE LET rel == CHOOSE r \in rels : TRUE IN
         ScanFts(ScanFileFts(fts, l, rel, files[<< root, rel >>]), l, root, rels \ {rel})

RECURSIVE ScanIndexed(_, _)
ScanIndexed(root, rels) ==
    IF rels = {} THEN 0
    ELSE LET rel == CHOOSE r \in rels : TRUE IN
         ScanFileIndexed(rel, files[<< root, rel >>]) + ScanIndexed(root, rels \ {rel})

\* a mutant of StaleRelPaths: no catalog row is ever found stale
StaleRelPathsNone(docs, l, seen_rel_paths) == {}

\* the catalog rows of the location whose rel_path the scan has not seen
StaleRelPaths(docs, l, seen_rel_paths) ==
    {k[2] : k \in {x \in DOMAIN docs : x[1] = l /\ x[2] \notin seen_rel_paths}}

\* the deletes of reconcile_location_index for the stale rows
RemoveStaleDocuments(docs, l, stale) == Drop(docs, {<< l, rel >> : rel \in stale})
RemoveStaleFts(fts, l, stale) ==
    Drop(fts, {r \in DOMAIN fts : r.location_id = l /\ r.rel_path \in stale})

\* a mutant of RootPathExists: the root is taken to be there
RootPathAssumed(fs, ds, root) == TRUE

\* location.root_path.exists()
RootPathExists(fs, ds, root) == Exists(fs, ds, << root, RootDir >>)

\* Store::reconcile_location_index on the tables docs and fts
reconcile_location_index_in(docs0, fts0, l) ==
    IF ~Registered(l) THEN Tables("NotFound", 0, docs0, fts0)
    ELSE LET root == locations[l] IN
         IF ~RootPathExists(files, dirs, root) THEN Tables("ok", 0, docs0, fts0)
         ELSE LET seen == collect_file_paths_recursive(files, root)
                  docs == ScanDocuments(docs0, l, root, seen)
                  fts == ScanFts(fts0, l, root, seen)
                  stale == StaleRelPaths(docs, l, seen)
              IN Tables("ok", ScanIndexed(root, seen),
                        RemoveStaleDocuments(docs, l, stale), RemoveStaleFts(fts, l, stale))

\* Store::reconcile_location_index
reconcile_location_index(l) ==
    Bind(reconcile_location_index_in(documents, docs_fts, l),
         LAMBDA t : Outcome(t.res, t.val, << >>, files, dirs, clock, t.documents, t.docs_fts))

\* the tail shared by doc_rename and doc_move, after std::fs::rename has moved
\* the file to new_k: DocId::new of the new relative path, removal of the old
\* rows, read_doc_metadata, and the index row of an indexable file
AfterDocRename(l, rel, new_k, new_id, fs, ds) ==
    IF ~new_id.ok
    THEN Outcome(PathErrorCode(new_id.err), 0, << >>, fs, ds, clock, documents, docs_fts)
    ELSE LET key == << l, rel >>
             new_key == << l, new_id.path >>
             docs == remove_document_row(documents, key)
             fts == remove_fts_entry(docs_fts, key)
             new_meta == read_doc_metadata(fs[new_k], new_id.path, FileNameOf(new_k[2]))
             text == read_to_string(fs[new_k].bytes)
         IN IF ~is_indexable_text_path(new_k[2])
            THEN Outcome("ok", 0, new_id.path, fs, ds, clock, docs, fts)
            ELSE IF ~text.ok
            THEN Outcome("Io", 0, << >>, fs, ds, clock, docs, fts)
            ELSE Outcome("ok", 0, new_id.path, fs, ds, clock, docs,
                         index_document_text(fts, new_key, new_meta, text.text))

\* a mutant of DestinationTaken: the destination is never looked at
DestinationTakenNever(fs, ds, new_k) == FALSE

\* new_path.exists() of doc_rename and doc_move
DestinationTaken(fs, ds, new_k) == Exists(fs, ds, new_k)

\* parent.join(new_name), relative to the root
doc_rename_target(rel, new_name) ==
    IF IsAbsolute(new_name) THEN new_name ELSE JoinPath(ParentOf(rel), new_name)

\* Store::doc_rename
doc_rename(l, rel, new_name) ==
    IF ~Registered(l) THEN NoChange("NotFound")
    ELSE LET root == locations[l]
             old_k == << root, rel >>
             raw == doc_rename_target(rel, new_name)
             new_k == OsResolve(root, raw)
             \* new_path.strip_prefix(root), then DocId::new
             new_id == IF IsAbsolute(raw) THEN PathErr("InvalidPath")
                       ELSE normalize_relative_path(raw)
         IN IF ~Exists(files, dirs, old_k) THEN NoChange("NotFound")
            ELSE IF DestinationTaken(files, dirs, new_k) THEN NoChange("Conflict")
            ELSE IF new_k[1] # OUTSIDE /\ ~IsDir(dirs, << new_k[1], ParentOf(new_k[2]) >>)
            THEN NoChange("Io")
            ELSE AfterDocRename(l, rel, new_k, new_id,
                                RenameFiles(files, old_k, new_k), dirs)

\* Store::doc_move
doc_move(l, rel, new_rel_path) ==
    IF ~Registered(l) THEN NoChange("NotFound")
    ELSE LET root == locations[l]
             old_k == << root, rel >>
             new_k == OsResolve(root, new_rel_path)
             new_id == normalize_relative_path(new_rel_path)
             parent == ParentOf(new_k[2])
         IN IF ~Exists(files, dirs, old_k) THEN NoChange("NotFound")
            ELSE IF DestinationTaken(files, dirs, new_k) THEN NoChange("Conflict")
            ELSE IF new_k[1] # OUTSIDE /\ CreateDirAllFails(files, new_k[1], parent)
            THEN NoChange("Io")
            ELSE LET ds == IF new_k[1] = OUTSIDE THEN dirs
                           ELSE create_dir_all(dirs, new_k[1], parent)
                 IN AfterDocRename(l, rel, new_k, new_id,
                                   RenameFiles(files, old_k, new_k), ds)

\* Store::doc_delete
doc_delete(l, rel) ==
    IF ~Registered(l) THEN NoChange("NotFound")
    ELSE LET k == << locations[l], rel >>
             key == << l, rel >>
         IN IF ~Exists(files, dirs, k) THEN NoChange("ok")
            ELSE IF IsDir(dirs, k) THEN NoChange("Io")
            ELSE Outcome("ok", 1, << >>, Drop(files, {k}), dirs, clock,
                         remove_document_row(documents, key), remove_fts_entry(docs_fts, key))

\* the checks on disk shared by dir_rename and dir_move, then the rename and the
\* rewrite of the rows; sqlFails tells whether the UPDATE of documents fails
MoveDirectory(l, old, new, mkParents, sqlFails) ==
    LET root == locations[l]
        cur_k == << root, old >>
        next_k == << root, new >>
        parent == ParentOf(new)
    IN IF ~Exists(files, dirs, cur_k) THEN NoChange("NotFound")
       ELSE IF ~IsDir(dirs, cur_k) THEN NoChange("InvalidPath")
       ELSE IF Exists(files, dirs, next_k) THEN NoChange("Conflict")
       ELSE IF mkParents /\ CreateDirAllFails(files, root, parent) THEN NoChange("Io")
       ELSE IF ~mkParents /\ ~IsDir(dirs, << root, parent >>) THEN NoChange("Io")
       ELSE LET ds0 == IF mkParents THEN create_dir_all(dirs, root, parent) ELSE dirs
                fs == RenameFiles(files, cur_k, next_k)
                ds == RenameDirs(ds0, cur_k, next_k)
            IN IF sqlFails
               THEN Outcome("Index", 0, << >>, fs, ds, clock, documents, docs_fts)
               ELSE Outcome("ok", 1, new, fs, ds, clock,
                            update_directory_documents(documents, l, old, new),
                            update_directory_fts(docs_fts, l, old, new))

\* a mutant of SingleSegment: any name that normalises is taken
SingleSegmentAny(name_path) == TRUE

\* new_name_path.components().count() == 1
SingleSegment(name_path) == Len(SplitSlash(name_path)) = 1

\* Store::dir_rename
dir_rename(l, rel_path, new_name, sqlFails) ==
    IF ~Registered(l) THEN NoChange("NotFound")
    ELSE LET old == normalize_relative_path(rel_path)
             name == normalize_relative_path(new_name)
         IN IF ~old.ok THEN NoChange(PathErrorCode(old.err))
            ELSE IF ~name.ok THEN NoChange("InvalidPath")
            ELSE IF ~SingleSegment(name.path) THEN NoChange("InvalidPath")
            ELSE LET next_rel == normalize_relative_path(JoinPath(ParentOf(old.path), name.path)) IN
                 IF ~next_rel.ok THEN NoChange(PathErrorCode(next_rel.err))
                 ELSE MoveDirectory(l, old.path, next_rel.path, FALSE, sqlFails)

\* a mutant of MovesIntoItself: only the directory itself is refused
MovesIntoItselfEqualOnly(old_str, new_str) == new_str = old_str

\* new_str == old_str || new_str.starts_with(&format!("{}/", old_str))
MovesIntoItself(old_str, new_str) ==
    new_str = old_str \/ StartsWith(new_str, old_str \o << SLASH >>)

\* Store::dir_move
dir_move(l, rel_path, new_rel_path, sqlFails) ==
    IF ~Registered(l) THEN NoChange("NotFound")
    ELSE LET old == normalize_relative_path(rel_path)
             new == normalize_relative_path(new_rel_path)
         IN IF ~old.ok THEN NoChange(PathErrorCode(old.err))
            ELSE IF ~new.ok THEN NoChange(PathErrorCode(new.err))
            ELSE IF MovesIntoItself(old.path, new.path) THEN NoChange("InvalidPath")
            ELSE MoveDirectory(l, old.path, new.path, TRUE, sqlFails)

\* the outcomes the UPDATE of documents can have for this call
SqlOutcomes(l, rel_path, new) ==
    LET old == normalize_relative_path(rel_path) IN
    IF ~Registered(l) \/ ~old.ok \/ ~new.ok THEN {FALSE}
    ELSE {b \in BOOLEAN :
            /\ b => DirUpdateMayFail(documents, l, old.path, new.path)
            /\ ~b => ~DirUpdateMustFail(documents, l, old.path, new.path)}

\* the path dir_rename moves the directory to
DirRenameTarget(rel_path, new_name) ==
    LET old == normalize_relative_path(rel_path)
        name == normalize_relative_path(new_name)
    IN IF old.ok /\ name.ok
       THEN normalize_relative_path(JoinPath(ParentOf(old.path), name.path))
       ELSE PathErr("InvalidPath")

\* Store::dir_delete
\* a mutant of dir_create: without the location the call returns Ok(false)
dir_create_without_location(l, rel_path) ==
    IF ~Registered(l) THEN NoChange("ok")
    ELSE LET p == normalize_relative_path(rel_path) IN
         IF ~p.ok THEN NoChange(PathErrorCode(p.err))
         ELSE LET k == << locations[l], p.path >> IN
              IF Exists(files, dirs, k)
              THEN IF IsDir(dirs, k) THEN NoChange("ok") ELSE NoChange("Conflict")
              ELSE IF CreateDirAllFails(files, k[1], k[2]) THEN NoChange("Io")
              ELSE Outcome("ok", 1, << >>, files, create_dir_all(dirs, k[1], k[2]), clock,
                           documents, docs_fts)

dir_create(l, rel_path) ==
    IF ~Registered(l) THEN NoChange("NotFound")
    ELSE LET p == normalize_relative_path(rel_path) IN
         IF ~p.ok THEN NoChange(PathErrorCode(p.err))
         ELSE LET k == << locations[l], p.path >> IN
              IF Exists(files, dirs, k)
              THEN IF IsDir(dirs, k) THEN NoChange("ok") ELSE NoChange("Conflict")
              ELSE IF CreateDirAllFails(files, k[1], k[2]) THEN NoChange("Io")
              ELSE Outcome("ok", 1, << >>, files, create_dir_all(dirs, k[1], k[2]), clock,
                           documents, docs_fts)

dir_delete(l, rel_path) ==
    IF ~Registered(l) THEN NoChange("NotFound")
    ELSE LET p == normalize_relative_path(rel_path) IN
         IF ~p.ok THEN NoChange(PathErrorCode(p.err))
         ELSE LET k == << locations[l], p.path >> IN
              IF ~Exists(files, dirs, k) THEN NoChange("ok")
              ELSE IF ~IsDir(dirs, k) THEN NoChange("InvalidPath")
              ELSE Outcome("ok", 1, << >>, RemoveTreeFiles(files, k), RemoveTreeDirs(dirs, k),
                           clock,
                           remove_directory_documents(documents, l, p.path),
                           remove_directory_fts(docs_fts, l, p.path))

(***************************************************************************)
(* Initial state: a store opened on a database in which two locations are  *)
(* registered and nothing is catalogued yet, over a disk that holds files  *)
(* already.                                                                *)
(***************************************************************************)
AF == JoinPath(D_a, P_f)
ABF == JoinPath(D_ab, P_f)
AxF == JoinPath(D_ax, P_f)
CapAF == JoinPath(D_A, P_f)
AuF == JoinPath(D_au, P_f)
NF == JoinPath(D_n, P_f)
UpE == <<".",".","/","e",".","m","d">>
AbsE == <<"/","e",".","m","d">>
NX == JoinPath(D_n, <<"x">>)
BUpAB == <<"b","/",".",".","/","a","/","b">>

OldFile(bytes) == [bytes |-> bytes, mtime |-> 0, created |-> 0]

DiskOne ==
    ( << "R1", P_f >> :> OldFile(Utf8Bytes(TextA)) ) @@
    ( << "R1", AF >> :> OldFile(Utf8Bytes(TextA)) ) @@
    ( << "R1", ABF >> :> OldFile(Utf8Bytes(TextB)) ) @@
    ( << "R1", AxF >> :> OldFile(Utf8Bytes(TextA)) ) @@
    ( << "R1", CapAF >> :> OldFile(Utf8Bytes(TextB)) ) @@
    ( << "R2", AF >> :> OldFile(Utf8Bytes(TextB)) )

DiskTwo ==
    ( << "R1", P_f >> :> OldFile(BytesBad8) ) @@
    ( << "R1", AF >> :> OldFile(Utf8Bytes(TextA)) ) @@
    ( << "R1", AuF >> :> OldFile(Utf8Bytes(TextB)) ) @@
    ( << "R1", AxF >> :> OldFile(Utf8Bytes(TextA)) ) @@
    ( << "R1", P_g >> :> OldFile(Utf8Bytes(TextA)) ) @@
    ( << "R1", P_u >> :> OldFile(BytesBad16) ) @@
    ( << "R2", AF >> :> OldFile(Utf8Bytes(TextB)) )

InitialDisks == {DiskOne, DiskTwo}

\* the directories a disk with these files has
DirsOf(fs) ==
    {<< r, RootDir >> : r \in Roots} \cup
    UNION {{<< k[1], a >> : a \in AncestorsOf(k[2])} : k \in DOMAIN fs}

Threads == {1, 2}

\* the locals of a thread that runs no operation
IdleLocals == [op |-> "none", loc |-> 0, rel |-> << >>, text |-> << >>, policy |-> "none",
               written |-> 0, meta |-> None, todo |-> {}, seen |-> {}, indexed |-> 0,
               cur |-> << >>, rtext |-> DecodeFailed, mid |-> FALSE]

NoCall == [op |-> "open", loc |-> 0, path |-> << >>, arg |-> << >>, text |-> << >>,
           res |-> "ok", val |-> 0, out |-> << >>, again |-> FALSE]

\* what last holds after a change of the disk that no call of the store made
OutOfBand == [NoCall EXCEPT !.op = "external"]

Init ==
    /\ locations = (1 :> "R1") @@ (2 :> "R2")
    /\ sqlite_sequence = 2
    /\ app_settings = NoSettings
    /\ watchers = EmptyFn
    /\ files \in InitialDisks
    /\ dirs = DirsOf(files)
    /\ clock = 0
    /\ documents = EmptyFn
    /\ docs_fts = EmptyFn
    /\ last = NoCall
    /\ nops = 0
    /\ exts = 0
    /\ pc = [t \in Threads |-> "idle"]
    /\ tv = [t \in Threads |-> IdleLocals]

(***************************************************************************)
(* The sequential specification: every call of the store API is one step,  *)
(* and the disk can change out of band between calls.                      *)
(***************************************************************************)
Call(op, l, path, arg, text) ==
    [op |-> op, loc |-> l, path |-> path, arg |-> arg, text |-> text]

\* a client may call while the bound on calls is not reached
MayCall == nops < MaxOps

\* the step of one call with outcome o
Returns(call, o) ==
    /\ files' = o.files
    /\ dirs' = o.dirs
    /\ clock' = o.clock
    /\ documents' = o.documents
    /\ docs_fts' = o.docs_fts
    /\ last' = [op |-> call.op, loc |-> call.loc, path |-> call.path, arg |-> call.arg,
                text |-> call.text, res |-> o.res, val |-> o.val, out |-> o.out,
                again |-> /\ last.op = call.op /\ last.loc = call.loc /\ last.path = call.path
                          /\ last.arg = call.arg /\ last.text = call.text
                          /\ last.res = "ok" /\ o.res = "ok"]
    /\ nops' = nops + 1
    /\ UNCHANGED << locations, sqlite_sequence, app_settings, watchers, exts, pc, tv >>

LocIds == {1, 2}

\* the calls the clients make: << location, path, argument >>
SaveCalls == {<< 1, P_f, TextA >>, << 1, P_f, TextB >>, << 1, AF, TextB >>,
              << 1, P_g, TextA >>, << 2, AF, TextA >>, << 1, P_f, TextBom >>,
              << 1, D_a, TextA >>}
OpenCalls == {<< 1, P_f >>}
ReindexCalls == {<< 1, P_f >>}
RenameCalls == {<< 1, P_f, P_h >>, << 1, P_f, UpE >>, << 1, AF, P_g >>}
MoveCalls == {<< 1, P_f, NF >>, << 1, P_f, UpE >>, << 1, P_f, AbsE >>, << 1, AF, P_f >>,
              << 1, AuF, CapAF >>}
DeleteCalls == {<< 1, P_f >>, << 1, AF >>, << 1, D_a >>}
DirRenameCalls == {<< 1, D_a, D_n >>, << 1, D_a, D_ax >>, << 1, D_au, D_n >>, << 1, D_a, NX >>}
DirMoveCalls == {<< 1, D_a, D_n >>, << 1, D_a, D_a >>, << 1, D_a, D_ab >>, << 1, D_a, BUpAB >>,
                 << 1, D_n, D_n >>, << 1, D_au, D_n >>, << 1, D_au, D_ab >>,
                 << 1, D_au, P_g >>}
DirDeleteCalls == {<< 1, D_a >>, << 1, D_au >>}
ExtDeletes == {<< "R1", AF >>, << "R1", NF >>}
ExtWrites == {<< "R1", P_f, BytesBad16 >>}
ExtRootRemovals == {"R2"}

DocSave(l, rel, text) ==
    MayCall /\ Returns(Call("doc_save", l, rel, << >>, text), doc_save(l, rel, text))

DocOpen(l, rel) ==
    MayCall /\ Returns(Call("doc_open", l, rel, << >>, << >>), doc_open(l, rel))

ReindexDocument(l, rel) ==
    MayCall /\ Returns(Call("reindex_document", l, rel, << >>, << >>), reindex_document(l, rel))

ReconcileLocation(l) ==
    MayCall /\ Returns(Call("reconcile_location", l, << >>, << >>, << >>), reconcile_location_index(l))

DocRename(l, rel, name) ==
    MayCall /\ Returns(Call("doc_rename", l, rel, name, << >>), doc_rename(l, rel, name))

DocMove(l, rel, to) ==
    MayCall /\ Returns(Call("doc_move", l, rel, to, << >>), doc_move(l, rel, to))

DocDelete(l, rel) ==
    MayCall /\ Returns(Call("doc_delete", l, rel, << >>, << >>), doc_delete(l, rel))

DirRename(l, d, name) ==
    \E sqlFails \in SqlOutcomes(l, d, DirRenameTarget(d, name)) :
        MayCall /\ Returns(Call("dir_rename", l, d, name, << >>), dir_rename(l, d, name, sqlFails))

DirMove(l, d, to) ==
    \E sqlFails \in SqlOutcomes(l, d, normalize_relative_path(to)) :
        MayCall /\ Returns(Call("dir_move", l, d, to, << >>), dir_move(l, d, to, sqlFails))

DirDelete(l, d) ==
    MayCall /\ Returns(Call("dir_delete", l, d, << >>, << >>), dir_delete(l, d))

\* another program deletes a file
ExternalDelete(root, rel) ==
    /\ exts < MaxExt
    /\ IsFile(files, << root, rel >>)
    /\ files' = Drop(files, {<< root, rel >>})
    /\ exts' = exts + 1
    /\ last' = OutOfBand
    /\ UNCHANGED << locations, sqlite_sequence, app_settings, watchers, dirs, clock, documents, docs_fts, nops, pc, tv >>

\* another program writes a file
ExternalWrite(root, rel, bytes) ==
    /\ exts < MaxExt
    /\ IsDir(dirs, << root, ParentOf(rel) >>)
    /\ ~IsDir(dirs, << root, rel >>)
    /\ files' = Put(files, << root, rel >>,
                    [bytes |-> bytes, mtime |-> clock + 1,
                     created |-> IF IsFile(files, << root, rel >>)
                                 THEN files[<< root, rel >>].created ELSE clock + 1])
    /\ clock' = clock + 1
    /\ exts' = exts + 1
    /\ last' = OutOfBand
    /\ UNCHANGED << locations, sqlite_sequence, app_settings, watchers, dirs, documents, docs_fts, nops, pc, tv >>

\* another program removes or unmounts the root directory of a location
ExternalRemoveRoot(root) ==
    /\ exts < MaxExt
    /\ IsDir(dirs, << root, RootDir >>)
    /\ files' = Drop(files, {k \in DOMAIN files : k[1] = root})
    /\ dirs' = {k \in dirs : k[1] # root}
    /\ exts' = exts + 1
    /\ last' = OutOfBand
    /\ UNCHANGED << locations, sqlite_sequence, app_settings, watchers, clock, documents, docs_fts, nops, pc, tv >>

Next ==
    \/ \E x \in SaveCalls : DocSave(x[1], x[2], x[3])
    \/ \E x \in OpenCalls : DocOpen(x[1], x[2])
    \/ \E x \in ReindexCalls : ReindexDocument(x[1], x[2])
    \/ \E l \in LocIds : ReconcileLocation(l)
    \/ \E x \in RenameCalls : DocRename(x[1], x[2], x[3])
    \/ \E x \in MoveCalls : DocMove(x[1], x[2], x[3])
    \/ \E x \in DeleteCalls : DocDelete(x[1], x[2])
    \/ \E x \in DirRenameCalls : DirRename(x[1], x[2], x[3])
    \/ \E x \in DirMoveCalls : DirMove(x[1], x[2], x[3])
    \/ \E x \in DirDeleteCalls : DirDelete(x[1], x[2])
    \/ \E x \in ExtDeletes : ExternalDelete(x[1], x[2])
    \/ \E x \in ExtWrites : ExternalWrite(x[1], x[2], x[3])
    \/ \E root \in ExtRootRemovals : ExternalRemoveRoot(root)

Spec == Init /\ [][Next]_vars

(***************************************************************************)
(* Properties of reconciliation                                            *)
(***************************************************************************)
\* the relative paths of the files on disk under the root of location l
FilesUnder(l) == {k[2] : k \in {x \in DOMAIN files : x[1] = locations[l]}}

\* the relative paths location l has catalog rows for
CatalogPaths(docs, l) == {k[2] : k \in {x \in DOMAIN docs : x[1] = l}}

\* the docs_fts rows of location l, and how many of them carry the path rel
FtsRowsOf(fts, l) == {r \in DOMAIN fts : r.location_id = l}
FtsCount(fts, l, rel) == SumOver(fts, {r \in FtsRowsOf(fts, l) : r.rel_path = rel})

\* the last step was a call of reconcile_location that returned Ok
Reconciled == last.op = "reconcile_location" /\ last.res = "ok"

\* the root directory of location l is on disk
RootOnDisk(l) == IsDir(dirs, << locations[l], RootDir >>)

\* C1: after reconcile_location(L) has returned, the root of L being on disk,
\* the catalog rows of L are exactly the files under the root of L: a row for
\* every file on disk (the primary key makes it one row), and no row for a
\* path that is not a file.
C1_ReconcileCatalogMatchesDisk ==
    (Reconciled /\ RootOnDisk(last.loc)) =>
        CatalogPaths(documents, last.loc) = FilesUnder(last.loc)

\* a reconcile that found the catalog with a row of a file deleted out of band
C1_Witness ==
    /\ Reconciled /\ last.loc = 1 /\ exts = 1 /\ nops >= 2
    /\ << "R1", AF >> \notin DOMAIN files
    /\ << 1, AF >> \notin DOMAIN documents
    /\ << 1, AxF >> \in DOMAIN documents

\* a file the scan indexes: its extension is indexable and its bytes decode
IndexableDecodable(l, rel) ==
    /\ << locations[l], rel >> \in DOMAIN files
    /\ ToLower(ExtensionOf(rel)) \in INDEXABLE_EXTENSIONS
    /\ files[<< locations[l], rel >>].bytes.enc # "bad16"

\* C2: after reconcile_location(L) has returned, the root of L being on disk,
\* from whatever catalog and index it started, docs_fts holds for L exactly one
\* row per indexable, decodable file on disk, each with a catalog row, and no
\* row for any other path.
C2_ReconcileIndexMatchesDisk ==
    (Reconciled /\ RootOnDisk(last.loc)) =>
        /\ \A rel \in FilesUnder(last.loc) :
              IndexableDecodable(last.loc, rel) => FtsCount(docs_fts, last.loc, rel) = 1
        /\ \A r \in FtsRowsOf(docs_fts, last.loc) :
              /\ IndexableDecodable(last.loc, r.rel_path)
              /\ << last.loc, r.rel_path >> \in DOMAIN documents

\* C3: a second reconcile_location(L) directly after a first, the disk not
\* having changed in between, leaves catalog and index as the first left them,
\* returns the same count, and leaves no file with more than one index row.
C3_ReconcileIdempotent ==
    [][ ( /\ Reconciled
          /\ last'.op = "reconcile_location" /\ last'.res = "ok" /\ last'.loc = last.loc
          /\ nops' = nops + 1 )
        => /\ documents' = documents
           /\ docs_fts' = docs_fts
           /\ last'.val = last.val
           /\ \A rel \in FilesUnder(last.loc) : FtsCount(docs_fts', last.loc, rel) <= 1 ]_vars

\* the second of two reconciles in a row, of a location with indexed files
C3_Witness ==
    /\ Reconciled /\ last.again /\ last.loc = 1 /\ last.val >= 3
    /\ FtsCount(docs_fts, 1, AxF) = 1

(***************************************************************************)
(* Properties of the directory operations                                  *)
(***************************************************************************)
\* rel lies below the directory dir: it is dir/<rest>
Below(rel, dir) == StartsWith(rel, dir \o << SLASH >>)

\* new/<rest> for the path old/<rest>
Rebased(rel, old, new) == new \o SubSeq(rel, Len(old) + 1, Len(rel))

\* the words a search can ask for
SearchTokens(fts) == UNION {Tokens(r.title) \cup Tokens(r.content) : r \in DOMAIN fts}

\* this step is a call of one of ops
Calls(ops) == last'.op \in ops /\ nops' = nops + 1

\* the normalised form of the path a call was given
Normal(raw) == normalize_relative_path(raw).path

\* C6: after a successful dir_move or dir_rename from old to new, every catalog
\* row and every docs_fts row of L that was at old/<rest> is at new/<rest>, no
\* row of L is at old or below it, and a search finds the moved documents at
\* their new paths and not at the old ones.
C6_DirectoryMoveRewritesRows ==
    [][ (Calls({"dir_move", "dir_rename"}) /\ last'.res = "ok") =>
        LET l == last'.loc
            old == Normal(last'.path)
            new == last'.out
        IN /\ \A k \in DOMAIN documents :
                 (k[1] = l /\ Below(k[2], old)) =>
                    /\ << l, Rebased(k[2], old, new) >> \in DOMAIN documents'
                    /\ documents'[<< l, Rebased(k[2], old, new) >>] = documents[k]
           /\ \A r \in FtsRowsOf(docs_fts, l) :
                 Below(r.rel_path, old) =>
                    /\ [r EXCEPT !.rel_path = Rebased(@, old, new)] \in DOMAIN docs_fts'
                    /\ docs_fts'[[r EXCEPT !.rel_path = Rebased(@, old, new)]] >= docs_fts[r]
           /\ \A rel \in CatalogPaths(documents', l) \cup
                         {r.rel_path : r \in FtsRowsOf(docs_fts', l)} :
                 rel # old /\ ~Below(rel, old)
           /\ \A token \in SearchTokens(docs_fts) :
                 \A k \in DOMAIN SearchHits(documents, docs_fts, token) :
                    (k[1] = l /\ Below(k[2], old)) =>
                       /\ << l, Rebased(k[2], old, new) >>
                              \in DOMAIN SearchHits(documents', docs_fts', token)
                       /\ k \notin DOMAIN SearchHits(documents', docs_fts', token) ]_vars

\* a directory with a catalogued, indexed document has been moved; the row of
\* a sibling directory is where it was
C6_Witness ==
    /\ last.op = "dir_move" /\ last.res = "ok" /\ last.path = D_au /\ last.out = D_n
    /\ << 1, NF >> \in DOMAIN documents
    /\ FtsCount(docs_fts, 1, NF) = 1
    /\ << 1, NF >> \in DOMAIN SearchHits(documents, docs_fts, "y")
    /\ << 1, AxF >> \in DOMAIN documents

\* C7: dir_rename, dir_move and dir_delete of the directory old of L change only
\* the rows of L whose rel_path is old or starts with old/: every other row of
\* the catalog and of docs_fts (a sibling such as oldx/f.md, a case variant, a
\* look-alike under the LIKE wildcards, another location) is left as it was.
C7_DirectoryOpsTouchOnlyTheirRows ==
    [][ (Calls({"dir_rename", "dir_move", "dir_delete"}) /\ normalize_relative_path(last'.path).ok) =>
        LET l == last'.loc
            old == Normal(last'.path)
        IN /\ \A k \in DOMAIN documents :
                 ~(k[1] = l /\ (k[2] = old \/ Below(k[2], old))) =>
                    k \in DOMAIN documents' /\ documents'[k] = documents[k]
           /\ \A r \in DOMAIN docs_fts :
                 ~(r.location_id = l /\ (r.rel_path = old \/ Below(r.rel_path, old))) =>
                    r \in DOMAIN docs_fts' /\ docs_fts'[r] >= docs_fts[r] ]_vars

\* the destination of this dir_move is the directory itself or lies inside it
IntoItself == Normal(last'.arg) = Normal(last'.path) \/ Below(Normal(last'.arg), Normal(last'.path))

\* C8: dir_move(L, p, q) with the normalised q equal to p or below p fails with
\* InvalidPath and changes neither the disk nor the catalog nor the index,
\* whether p exists on disk or not.
C8_MoveIntoItselfRefused ==
    [][ ( /\ Calls({"dir_move"})
          /\ normalize_relative_path(last'.path).ok /\ normalize_relative_path(last'.arg).ok
          /\ IntoItself )
        => /\ last'.res = "InvalidPath"
           /\ UNCHANGED << files, dirs, documents, docs_fts >> ]_vars

\* a catalogued directory that exists was to be moved below itself, the
\* destination written with a detour (b/../a/b)
C8_Witness ==
    /\ last.op = "dir_move" /\ last.path = D_a /\ last.arg = BUpAB /\ last.res = "InvalidPath"
    /\ IsDir(dirs, << "R1", D_a >>)
    /\ << 1, AF >> \in DOMAIN documents

(***************************************************************************)
(* Properties of doc_rename and doc_move                                   *)
(***************************************************************************)
\* C9: after a successful doc_rename or doc_move there is no catalog row and no
\* docs_fts row for the old DocRef, there is a catalog row for the new DocRef
\* with the metadata of the file, a docs_fts row if the new path is indexable,
\* and a search finds the document at the new rel_path.
C9_RenameMovesTheRows ==
    (last.op \in {"doc_rename", "doc_move"} /\ last.res = "ok") =>
        LET l == last.loc
            new == last.out
            file == files[<< locations[l], new >>]
        IN /\ << l, last.path >> \notin DOMAIN documents
           /\ FtsCount(docs_fts, l, last.path) = 0
           /\ << l, new >> \in DOMAIN documents
           /\ documents[<< l, new >>] = read_doc_metadata(file, new, FileNameOf(new))
           /\ is_indexable_text_path(new) =>
                 /\ FtsCount(docs_fts, l, new) = 1
                 /\ \A token \in Tokens(Lossy(file.bytes.words)) :
                        << l, new >> \in DOMAIN SearchHits(documents, docs_fts, token)

\* the destination this call names: parent/new_name for doc_rename
Destination == IF last'.op = "doc_rename" THEN doc_rename_target(last'.path, last'.arg) ELSE last'.arg

\* C10: doc_move or doc_rename of an existing document to a free destination
\* that fails path validation (a .. that leaves the root, an absolute path) is
\* refused with InvalidPath before anything is renamed on disk: files, catalog
\* and index are as they were.
C10_InvalidDestinationRefused ==
    [][ ( /\ Calls({"doc_move", "doc_rename"})
          /\ IsFile(files, << locations[last'.loc], last'.path >>)
          /\ ~Exists(files, dirs, OsResolve(locations[last'.loc], Destination))
          /\ (IsAbsolute(Destination) \/ ~normalize_relative_path(Destination).ok) )
        => /\ last'.res = "InvalidPath"
           /\ UNCHANGED << files, dirs, documents, docs_fts >> ]_vars

(***************************************************************************)
(* The concurrent specification: two threads call doc_save and             *)
(* reconcile_location_index on one store.  A step is one access to the     *)
(* disk or one helper that takes self.conn.lock(), runs its statements and *)
(* releases the lock on return.                                            *)
(***************************************************************************)
\* the name tempfile::NamedTempFile::new_in gives the temporary file of thread t
TmpName(t) == << ".", "t", IF t = 1 THEN "1" ELSE "2" >>

\* a mutant of TmpPath: the new text is written to the target itself
TmpPathIsTarget(t, rel) == rel

\* NamedTempFile::new_in(parent_dir): a new file in the directory of the target
TmpPath(t, rel) == JoinPath(ParentOf(rel), TmpName(t))

Target(t) == << locations[tv[t].loc], tv[t].rel >>
TmpKey(t) == << locations[tv[t].loc], TmpPath(t, tv[t].rel) >>
DocKey(t) == << tv[t].loc, tv[t].rel >>

\* thread t goes to step p with the locals loc
Goto(t, p, loc) ==
    /\ pc' = [pc EXCEPT ![t] = p]
    /\ tv' = [tv EXCEPT ![t] = loc]
    /\ UNCHANGED << last, nops, locations, sqlite_sequence, app_settings, watchers, exts >>

\* the operation of thread t returns
Return(t, res, val) ==
    /\ pc' = [pc EXCEPT ![t] = "idle"]
    /\ tv' = [tv EXCEPT ![t] = IdleLocals]
    /\ last' = [op |-> tv[t].op, loc |-> tv[t].loc, path |-> tv[t].rel, arg |-> << >>,
                text |-> tv[t].text, res |-> res, val |-> val, out |-> tv[t].rel,
                again |-> FALSE]
    /\ UNCHANGED << nops, locations, sqlite_sequence, app_settings, watchers, exts >>

\* an idle thread may call while the bound on calls is not reached
MayBegin(t) == pc[t] = "idle" /\ nops < MaxConcOps

\* a thread calls an operation; location_get is its first statement
Begin(t, op, l, rel, text, policy, first) ==
    /\ nops' = nops + 1
    /\ pc' = [pc EXCEPT ![t] = IF Registered(l) THEN first ELSE "idle"]
    /\ tv' = [tv EXCEPT ![t] = IF Registered(l)
                               THEN [IdleLocals EXCEPT !.op = op, !.loc = l, !.rel = rel,
                                                       !.text = text, !.policy = policy]
                               ELSE IdleLocals]
    /\ last' = IF Registered(l) THEN last
               ELSE [NoCall EXCEPT !.op = op, !.loc = l, !.path = rel, !.res = "NotFound"]
    /\ UNCHANGED << locations, sqlite_sequence, app_settings, watchers, exts, files, dirs, clock, documents, docs_fts >>

SaveBegin(t, l, rel, text, policy) ==
    MayBegin(t) /\ Begin(t, "doc_save", l, rel, text, policy, "save_mkdir")

\* doc_save: std::fs::create_dir_all(parent)
SaveMkdir(t) ==
    /\ pc[t] = "save_mkdir"
    /\ LET root == locations[tv[t].loc]
           parent == ParentOf(tv[t].rel)
       IN IF CreateDirAllFails(files, root, parent)
          THEN Return(t, "Io", 0) /\ UNCHANGED dirs
          ELSE /\ dirs' = create_dir_all(dirs, root, parent)
               /\ Goto(t, IF tv[t].policy = "Atomic" THEN "tmp_create" ELSE "create", tv[t])
    /\ UNCHANGED << files, clock, documents, docs_fts >>

\* save_atomic: NamedTempFile::new_in
SaveTmpCreate(t) ==
    /\ pc[t] = "tmp_create"
    /\ files' = Put(files, TmpKey(t), NewFile(Utf8Bytes(<< >>), clock + 1))
    /\ clock' = clock + 1
    /\ Goto(t, "tmp_write", tv[t])
    /\ UNCHANGED << dirs, documents, docs_fts >>

\* save_atomic: file.write_all, which may take several writes
SaveTmpWrite(t) ==
    /\ pc[t] = "tmp_write"
    /\ LET n == tv[t].written + 1 IN
       /\ files' = [files EXCEPT ![TmpKey(t)].bytes = Utf8Bytes(SubSeq(tv[t].text, 1, n))]
       /\ Goto(t, IF n = Len(tv[t].text) THEN "tmp_sync" ELSE "tmp_write",
               [tv[t] EXCEPT !.written = n])
    /\ UNCHANGED << dirs, clock, documents, docs_fts >>

\* save_atomic: file.sync_all
SaveTmpSync(t) ==
    /\ pc[t] = "tmp_sync"
    /\ Goto(t, "persist", tv[t])
    /\ UNCHANGED << files, dirs, clock, documents, docs_fts >>

\* save_atomic: temp_file.persist(target_path), a rename over the target; on
\* failure the temporary file is removed when it is dropped
SavePersist(t) ==
    /\ pc[t] = "persist"
    /\ IF IsDir(dirs, Target(t))
       THEN /\ files' = Drop(files, {TmpKey(t)})
            /\ Return(t, "Io", 0)
       ELSE /\ files' = Put(Drop(files, {TmpKey(t)}), Target(t), files[TmpKey(t)])
            /\ Goto(t, "stat", tv[t])
    /\ UNCHANGED << dirs, clock, documents, docs_fts >>

\* doc_save, SavePolicy::InPlace: File::create truncates the target
SaveCreate(t) ==
    /\ pc[t] = "create"
    /\ IF IsDir(dirs, Target(t))
       THEN Return(t, "Io", 0) /\ UNCHANGED << files, clock >>
       ELSE /\ files' = Put(files, Target(t),
                            [bytes |-> Utf8Bytes(<< >>), mtime |-> clock + 1,
                             created |-> IF IsFile(files, Target(t))
                                         THEN files[Target(t)].created ELSE clock + 1])
            /\ clock' = clock + 1
            /\ Goto(t, "write", tv[t])
    /\ UNCHANGED << dirs, documents, docs_fts >>

\* doc_save, SavePolicy::InPlace: file.write_all, which may take several writes
SaveWrite(t) ==
    /\ pc[t] = "write"
    /\ LET n == tv[t].written + 1 IN
       /\ files' = IF IsFile(files, Target(t))
                   THEN [files EXCEPT ![Target(t)].bytes = Utf8Bytes(SubSeq(tv[t].text, 1, n))]
                   ELSE files
       /\ Goto(t, IF n = Len(tv[t].text) THEN "stat" ELSE "write", [tv[t] EXCEPT !.written = n])
    /\ UNCHANGED << dirs, clock, documents, docs_fts >>

\* doc_save: std::fs::metadata(&full_path) and the DocMeta built from it
SaveStat(t) ==
    /\ pc[t] = "stat"
    /\ IF IsFile(files, Target(t))
       THEN Goto(t, "catalog",
                 [tv[t] EXCEPT !.meta = Some(SaveMeta(files[Target(t)], tv[t].rel, tv[t].text))])
       ELSE Return(t, "Io", 0)
    /\ UNCHANGED << files, dirs, clock, documents, docs_fts >>

\* doc_save: self.update_doc_in_catalog
SaveCatalog(t) ==
    /\ pc[t] = "catalog"
    /\ documents' = update_doc_in_catalog(documents, DocKey(t), tv[t].meta[1])
    /\ Goto(t, "index", [tv[t] EXCEPT !.mid = TRUE])
    /\ UNCHANGED << files, dirs, clock, docs_fts >>

\* doc_save: self.index_document_text, and the return
SaveIndex(t) ==
    /\ pc[t] = "index"
    /\ docs_fts' = index_document_text(docs_fts, DocKey(t), tv[t].meta[1], tv[t].text)
    /\ Return(t, "ok", 1)
    /\ UNCHANGED << files, dirs, clock, documents >>

ReconcileBegin(t, l) ==
    MayBegin(t) /\ Begin(t, "reconcile_location", l, << >>, << >>, "none", "scan")

\* where the loop of reconcile_location_index goes after a file
NextFile(todo) == IF todo = {} THEN "stale" ELSE "file_meta"

\* reconcile_location_index: root_path.exists() and collect_file_paths_recursive
ReconcileScan(t) ==
    /\ pc[t] = "scan"
    /\ LET root == locations[tv[t].loc] IN
       IF ~RootPathExists(files, dirs, root) THEN Return(t, "ok", 0)
       ELSE LET file_paths == collect_file_paths_recursive(files, root) IN
            Goto(t, NextFile(file_paths), [tv[t] EXCEPT !.todo = file_paths])
    /\ UNCHANGED << files, dirs, clock, documents, docs_fts >>

\* the loop, for the next path: full_path.is_file() and read_doc_metadata
ReconcileFileMeta(t) ==
    /\ pc[t] = "file_meta"
    /\ \E rel \in tv[t].todo :
          LET k == << locations[tv[t].loc], rel >> IN
          IF ~IsFile(files, k)
          THEN Goto(t, NextFile(tv[t].todo \ {rel}), [tv[t] EXCEPT !.todo = @ \ {rel}])
          ELSE Goto(t, "file_catalog",
                    [tv[t] EXCEPT !.cur = rel, !.seen = @ \cup {rel},
                                  !.meta = Some(read_doc_metadata(files[k], rel, FileNameOf(rel)))])
    /\ UNCHANGED << files, dirs, clock, documents, docs_fts >>

\* the loop: self.update_doc_in_catalog
ReconcileFileCatalog(t) ==
    /\ pc[t] = "file_catalog"
    /\ documents' = update_doc_in_catalog(documents, << tv[t].loc, tv[t].cur >>, tv[t].meta[1])
    /\ Goto(t, "file_text", [tv[t] EXCEPT !.mid = TRUE])
    /\ UNCHANGED << files, dirs, clock, docs_fts >>

\* the loop: read_file_text_with_detection of an indexable path; a file that
\* is gone by now fails to open
ReconcileFileText(t) ==
    /\ pc[t] = "file_text"
    /\ LET k == << locations[tv[t].loc], tv[t].cur >> IN
       Goto(t, "file_index",
            [tv[t] EXCEPT !.rtext = IF is_indexable_text_path(tv[t].cur) /\ IsFile(files, k)
                                    THEN read_file_text_with_detection(files[k].bytes)
                                    ELSE DecodeFailed])
    /\ UNCHANGED << files, dirs, clock, documents, docs_fts >>

\* the loop: self.index_document_text or self.remove_fts_entry
ReconcileFileIndex(t) ==
    /\ pc[t] = "file_index"
    /\ LET key == << tv[t].loc, tv[t].cur >>
           hit == is_indexable_text_path(tv[t].cur) /\ tv[t].rtext.ok
       IN /\ docs_fts' = IF hit THEN index_document_text(docs_fts, key, tv[t].meta[1], tv[t].rtext.text)
                         ELSE remove_fts_entry(docs_fts, key)
          /\ Goto(t, NextFile(tv[t].todo \ {tv[t].cur}),
                  [tv[t] EXCEPT !.todo = @ \ {tv[t].cur},
                                !.indexed = IF hit THEN @ + 1 ELSE @])
    /\ UNCHANGED << files, dirs, clock, documents >>

\* reconcile_location_index: the stale rows are read and deleted under one lock
ReconcileStale(t) ==
    /\ pc[t] = "stale"
    /\ LET stale == StaleRelPaths(documents, tv[t].loc, tv[t].seen) IN
       /\ documents' = RemoveStaleDocuments(documents, tv[t].loc, stale)
       /\ docs_fts' = RemoveStaleFts(docs_fts, tv[t].loc, stale)
    /\ Return(t, "ok", tv[t].indexed)
    /\ UNCHANGED << files, dirs, clock >>

ConcSaveCalls == {<< 2, AF, TextA, "Atomic" >>, << 2, P_f, TextB, "Atomic" >>,
                  << 2, AF, TextA, "InPlace" >>}

NextConc ==
    \E t \in Threads :
        \/ \E x \in ConcSaveCalls : SaveBegin(t, x[1], x[2], x[3], x[4])
        \/ SaveMkdir(t)
        \/ SaveTmpCreate(t)
        \/ SaveTmpWrite(t)
        \/ SaveTmpSync(t)
        \/ SavePersist(t)
        \/ SaveCreate(t)
        \/ SaveWrite(t)
        \/ SaveStat(t)
        \/ SaveCatalog(t)
        \/ SaveIndex(t)
        \/ ReconcileBegin(t, 2)
        \/ ReconcileScan(t)
        \/ ReconcileFileMeta(t)
        \/ ReconcileFileCatalog(t)
        \/ ReconcileFileText(t)
        \/ ReconcileFileIndex(t)
        \/ ReconcileStale(t)

SpecConc == Init /\ [][NextConc]_vars

(***************************************************************************)
(* Properties of concurrent calls                                          *)
(***************************************************************************)
\* this step is a step of thread t
StepOf(t) == pc'[t] # pc[t] \/ tv'[t] # tv[t]

\* the steps of save_atomic
AtomicSteps == {"tmp_create", "tmp_write", "tmp_sync", "persist"}

\* C4: in a doc_save with the Atomic policy, no step before the rename changes
\* the file at the target path, and the rename puts the complete new text
\* there: whoever reads the target finds the whole old or the whole new
\* content, never an empty or partly written file.
C4_AtomicSaveOldOrNew ==
    [][ \A t \in Threads :
          (StepOf(t) /\ tv[t].policy = "Atomic" /\ pc[t] \in AtomicSteps) =>
             IF pc[t] = "persist" /\ pc'[t] = "stat"
             THEN /\ IsFile(files', Target(t))
                  /\ files'[Target(t)].bytes = Utf8Bytes(tv[t].text)
             ELSE /\ IsFile(files', Target(t)) <=> IsFile(files, Target(t))
                  /\ IsFile(files, Target(t)) => files'[Target(t)] = files[Target(t)] ]_vars

\* a save is about to rename: the temporary file holds the whole new text, the
\* target still holds the whole old text, which differs
C4_Witness ==
    \E t \in Threads :
        /\ pc[t] = "persist" /\ tv[t].policy = "Atomic"
        /\ IsFile(files, TmpKey(t)) /\ files[TmpKey(t)].bytes = Utf8Bytes(tv[t].text)
        /\ IsFile(files, Target(t)) /\ files[Target(t)].bytes = Utf8Bytes(TextB)
        /\ tv[t].text = TextA

\* the steps that write to documents or docs_fts
DbWriteSteps == {"catalog", "index", "file_catalog", "file_index", "stale"}

\* C5: the catalog and index accesses of one operation are not interleaved with
\* the writes of another: while a thread is between the first and the last
\* access its operation makes to documents and docs_fts, no other thread
\* writes to these tables.
C5_OperationsNotInterleaved ==
    [][ \A t, u \in Threads :
          (t # u /\ StepOf(t) /\ pc[t] \in DbWriteSteps) => ~tv[u].mid ]_vars

(***************************************************************************)
(* Properties of the document operations                                   *)
(***************************************************************************)
\* the last step was a call of doc_save that returned Ok
Saved == last.op = "doc_save" /\ last.res = "ok"

\* the title, word count and content hash of row or DocMeta m are those of text
DerivedFrom(m, text, rel) ==
    /\ m.title = derive_text_metadata(text, rel).title
    /\ m.word_count = Some(derive_text_metadata(text, rel).word_count)
    /\ m.content_hash = Some(hash_text(text))

\* C11: after doc_save(doc, text) has returned Ok, the file of doc holds exactly
\* the bytes of text, the catalog has the row of doc with the metadata derived
\* from text and the size and modification time of the file, docs_fts has
\* exactly one row for doc when its extension is indexable and none otherwise,
\* and for an indexable doc a search for any token of text gives exactly one
\* hit for doc.
C11_SaveWritesFileCatalogIndex ==
    Saved =>
        LET l == last.loc
            rel == last.path
            key == << l, rel >>
            k == << locations[l], rel >>
        IN /\ IsFile(files, k)
           /\ files[k].bytes = Utf8Bytes(last.text)
           /\ key \in DOMAIN documents
           /\ DerivedFrom(documents[key], last.text, rel)
           /\ documents[key].size_bytes = Len(files[k].bytes.words)
           /\ documents[key].mtime = files[k].mtime
           /\ FtsCount(docs_fts, l, rel) = IF is_indexable_text_path(rel) THEN 1 ELSE 0
           /\ is_indexable_text_path(rel) =>
                \A token \in Tokens(last.text) :
                    /\ key \in DOMAIN SearchHits(documents, docs_fts, token)
                    /\ SearchHits(documents, docs_fts, token)[key] = 1

\* the same text has been saved twice in a row to an indexable document
C11_Witness ==
    Saved /\ last.again /\ is_indexable_text_path(last.path) /\ Tokens(last.text) # {}

\* C12: doc_open of a document, called right after doc_save(doc, text) has
\* returned Ok, returns text, and the title, word count and content hash of the
\* metadata it returns are those computed from text and those doc_save stored.
C12_SaveThenOpenReturnsText ==
    [][(/\ Saved
        /\ Calls({"doc_open"})
        /\ last'.loc = last.loc
        /\ last'.path = last.path)
       => /\ last'.res = "ok"
          /\ last'.out.text = last.text
          /\ DerivedFrom(last'.out.meta, last.text, last.path)
          /\ last'.out.meta.title = documents[<< last.loc, last.path >>].title
          /\ last'.out.meta.word_count = documents[<< last.loc, last.path >>].word_count
          /\ last'.out.meta.content_hash = documents[<< last.loc, last.path >>].content_hash]_vars

\* the calls that upsert catalog rows
Upserts == {"doc_save", "reindex_document", "reconcile_location"}

\* C13: a catalog row that has a created_at keeps it through every call of
\* doc_save, reindex_document and reconcile_location that does not delete the
\* row, while its mtime becomes the one of the file whenever the call has
\* written the row again.
C13_CreatedAtKept ==
    [][Calls(Upserts) =>
         \A key \in DOMAIN documents \cap DOMAIN documents' :
            /\ IsSome(documents[key].created_at) =>
                  documents'[key].created_at = documents[key].created_at
            /\ (/\ last'.op = "doc_save"
                /\ last'.res = "ok"
                /\ key = << last'.loc, last'.path >>) =>
                  documents'[key].mtime = files'[<< locations[key[1]], key[2] >>].mtime]_vars

\* a save has replaced the file of a row: the row has the new mtime and the
\* created_at of the file it first stood for
C13_Witness ==
    /\ Saved
    /\ << last.loc, last.path >> \in DOMAIN documents
    /\ LET row == documents[<< last.loc, last.path >>]
           file == files[<< locations[last.loc], last.path >>]
       IN row.mtime = file.mtime /\ row.created_at # Some(file.created)

\* C14: after doc_delete(doc) has returned Ok, neither the file of doc nor a
\* catalog row nor a docs_fts row of doc exists, and a call repeated right
\* after returns false.
C14_DeleteLeavesNothing ==
    (last.op = "doc_delete" /\ last.res = "ok") =>
        /\ ~IsFile(files, << locations[last.loc], last.path >>)
        /\ << last.loc, last.path >> \notin DOMAIN documents
        /\ FtsCount(docs_fts, last.loc, last.path) = 0
        /\ last.again => last.val = 0

\* the disk, the catalog and the index are as they were
NothingChanged == UNCHANGED << files, dirs, documents, docs_fts >>

\* C15: doc_rename and doc_move of a document whose file is missing fail with
\* NotFound, and of an existing document to a destination that exists on disk
\* (a file or a directory, inside the root or not) fail with Conflict; in both
\* cases the disk, the catalog and the index are as they were.
C15_RenameConflictAndNotFound ==
    [][Calls({"doc_rename", "doc_move"}) =>
         LET root == locations[last'.loc]
             source == << root, last'.path >>
             target == OsResolve(root, Destination)
         IN /\ ~Exists(files, dirs, source) =>
                  last'.res = "NotFound" /\ NothingChanged
            /\ (Exists(files, dirs, source) /\ Exists(files, dirs, target)) =>
                  last'.res = "Conflict" /\ NothingChanged]_vars

\* a move onto an existing file has been refused while rows of both documents
\* were in the catalog
C15_Witness ==
    /\ last.op = "doc_move"
    /\ last.res = "Conflict"
    /\ IsFile(files, << locations[last.loc], last.path >>)
    /\ IsFile(files, << locations[last.loc], last.arg >>)
    /\ << last.loc, last.path >> \in DOMAIN documents
    /\ << last.loc, last.arg >> \in DOMAIN documents

\* C16: after dir_delete(L, p) has returned true, no file and no directory is
\* at p or below it on disk, no catalog row and no docs_fts row of L has a
\* rel_path equal to p or below p, and no search gives a hit of L at or below p.
C16_DirDeleteRemovesSubtree ==
    (last.op = "dir_delete" /\ last.res = "ok" /\ last.val = 1) =>
        LET l == last.loc
            p == Normal(last.path)
            At(rel) == rel = p \/ Below(rel, p)
        IN /\ \A k \in DOMAIN files \cup dirs : ~(k[1] = locations[l] /\ At(k[2]))
           /\ \A key \in DOMAIN documents : ~(key[1] = l /\ At(key[2]))
           /\ \A r \in DOMAIN docs_fts : ~(r.location_id = l /\ At(r.rel_path))
           /\ \A token \in SearchTokens(docs_fts) :
                \A key \in DOMAIN SearchHits(documents, docs_fts, token) :
                    ~(key[1] = l /\ At(key[2]))

\* the directory a has been deleted from a location that had been catalogued
\* and indexed: the rows of its sibling ax/f.md are still there
C16_Witness ==
    /\ last.op = "dir_delete" /\ last.res = "ok" /\ last.val = 1
    /\ last.path = D_a
    /\ << 1, AxF >> \in DOMAIN documents
    /\ FtsCount(docs_fts, 1, AxF) = 1

\* the destination this dir_rename or dir_move names, normalised
DirDestination ==
    IF last'.op = "dir_rename" THEN DirRenameTarget(last'.path, last'.arg)
    ELSE normalize_relative_path(last'.arg)

\* the new_name of this dir_rename is not one path segment
NotOneSegment ==
    \/ ~normalize_relative_path(last'.arg).ok
    \/ \E i \in 1..Len(Normal(last'.arg)) : Normal(last'.arg)[i] = SLASH

\* C17: dir_rename with a new_name that is not a single path segment fails with
\* InvalidPath; dir_rename and dir_move of an existing directory to a
\* destination that exists on disk, as a file or as a directory, and that is
\* not the directory itself or inside it, fail with Conflict; in each case
\* the disk, the catalog and the index are as they were.
C17_DirConflictAndInvalidName ==
    [][Calls({"dir_rename", "dir_move"}) =>
         LET root == locations[last'.loc]
             old == normalize_relative_path(last'.path)
         IN /\ (last'.op = "dir_rename" /\ NotOneSegment) =>
                  last'.res = "InvalidPath" /\ NothingChanged
            /\ (/\ old.ok
                /\ DirDestination.ok
                /\ last'.op = "dir_rename" => ~NotOneSegment
                /\ last'.op = "dir_move" => ~IntoItself
                /\ IsDir(dirs, << root, old.path >>)
                /\ Exists(files, dirs, << root, DirDestination.path >>)) =>
                  last'.res = "Conflict" /\ NothingChanged]_vars

\* a directory move onto a file has been refused in a location that is
\* catalogued
C17_Witness ==
    /\ documents # EmptyFn
    /\ last.op = "dir_move" /\ last.res = "Conflict"
    /\ IsFile(files, << locations[last.loc], last.arg >>)

\* an indexable file of location l whose bytes do not decode
Undecodable(l, rel) ==
    /\ << locations[l], rel >> \in DOMAIN files
    /\ is_indexable_text_path(rel)
    /\ ~detect_and_decode(files[<< locations[l], rel >>].bytes).ok

\* C19: a reconcile_location(L) that meets an indexable file whose bytes cannot
\* be decoded still returns Ok: that file has a catalog row and no docs_fts
\* row, the number returned counts the indexable files that decode and not
\* that one, every file of L has a catalog row and every indexable decodable
\* one exactly one docs_fts row, and every catalog row of L whose file is gone
\* is removed together with its docs_fts rows.
C19_UndecodableFileDoesNotAbort ==
    [][(/\ Calls({"reconcile_location"})
        /\ RootOnDisk(last'.loc)
        /\ \E bad \in FilesUnder(last'.loc) : Undecodable(last'.loc, bad))
       => LET l == last'.loc IN
          /\ last'.res = "ok"
          /\ \A bad \in FilesUnder(l) :
                Undecodable(l, bad) =>
                    /\ << l, bad >> \in DOMAIN documents'
                    /\ FtsCount(docs_fts', l, bad) = 0
          /\ last'.val = Cardinality({rel \in FilesUnder(l) : IndexableDecodable(l, rel)})
          /\ \A rel \in FilesUnder(l) :
                /\ << l, rel >> \in DOMAIN documents'
                /\ IndexableDecodable(l, rel) => FtsCount(docs_fts', l, rel) = 1
          /\ \A key \in DOMAIN documents :
                (key[1] = l /\ key[2] \notin FilesUnder(l)) =>
                    /\ key \notin DOMAIN documents'
                    /\ FtsCount(docs_fts', l, key[2]) = 0]_vars

\* a reconciliation has gone past an undecodable f.md: f.md is catalogued and
\* not indexed, a/f.md is catalogued and indexed
C19_Witness ==
    /\ Reconciled /\ last.loc = 1
    /\ Undecodable(1, P_f)
    /\ << 1, P_f >> \in DOMAIN documents
    /\ FtsCount(docs_fts, 1, P_f) = 0
    /\ FtsCount(docs_fts, 1, AF) = 1
    /\ last.val >= 1

\* C20: reconcile_location(L) of a registered location whose root_path is not
\* on disk returns Ok(0) and leaves every catalog row and every docs_fts row,
\* of L and of every other location, as it was.
C20_MissingRootIsNoOp ==
    [][(Calls({"reconcile_location"}) /\ ~RootOnDisk(last'.loc)) =>
          /\ last'.res = "ok"
          /\ last'.val = 0
          /\ documents' = documents
          /\ docs_fts' = docs_fts]_vars

\* location 2 has been reconciled after its root went away: its rows are kept
C20_Witness ==
    /\ Reconciled /\ last.loc = 2
    /\ ~RootOnDisk(2)
    /\ CatalogPaths(documents, 2) # {}
    /\ FtsRowsOf(docs_fts, 2) # {}

(***************************************************************************)
(* The path specification: normalize_relative_path applied to every path   *)
(* of at most MaxSegs components, written with or without a leading and a  *)
(* trailing separator.                                                     *)
(***************************************************************************)
PathSegments == {<< "a" >>, << "x" >>, DOT, DOTDOT}

SegmentLists == UNION {[1..n -> PathSegments] : n \in 0..MaxSegs}

Separators == {<< >>, << SLASH >>}

InitPath ==
    /\ locations = (1 :> "R1") @@ (2 :> "R2")
    /\ sqlite_sequence = 2
    /\ app_settings = NoSettings
    /\ watchers = EmptyFn
    /\ files = DiskOne
    /\ dirs = DirsOf(files)
    /\ clock = 0
    /\ documents = EmptyFn
    /\ docs_fts = EmptyFn
    /\ \E segs \in SegmentLists, lead \in Separators, trail \in Separators :
          last = [NoCall EXCEPT !.op = "input", !.arg = segs,
                                !.path = lead \o JoinSlash(segs) \o trail]
    /\ nops = 0
    /\ exts = 0
    /\ pc = [t \in Threads |-> "idle"]
    /\ tv = [t \in Threads |-> IdleLocals]

\* normalize_relative_path(path), and DocId::resolve of the result
NormalizePath ==
    /\ last.op = "input"
    /\ LET r == normalize_relative_path(last.path) IN
       last' = [last EXCEPT !.op = "normalize_relative_path",
                            !.res = IF r.ok THEN "ok" ELSE r.err,
                            !.out = r.path,
                            !.val = IF r.ok /\ OsResolve("R1", r.path) = << "R1", r.path >>
                                    THEN 1 ELSE 0]
    /\ UNCHANGED << locations, sqlite_sequence, app_settings, watchers, files, dirs, clock, documents, docs_fts, nops, exts, pc, tv >>

SpecPath == InitPath /\ [][NormalizePath]_vars

\* reading the components left to right, a ".." is met when as many ".." as
\* normal segments have gone before it
EscapesRoot(segs) ==
    \E i \in 1..Len(segs) :
        /\ segs[i] = DOTDOT
        /\ \A h \in 1..(i - 1) :
              Cardinality({j \in 1..h : segs[j] = DOTDOT})
                  <= Cardinality({j \in 1..h : segs[j] \notin {DOT, DOTDOT}})
        /\ Cardinality({j \in 1..(i - 1) : segs[j] = DOTDOT})
              = Cardinality({j \in 1..(i - 1) : segs[j] \notin {DOT, DOTDOT}})

\* the path is made of normal segments only, one separator between two
OnlyNormalSegments(path) ==
    /\ path # << >>
    /\ path[1] # SLASH /\ path[Len(path)] # SLASH
    /\ \A i \in 1..(Len(path) - 1) : ~(path[i] = SLASH /\ path[i + 1] = SLASH)
    /\ \A i \in 1..Len(path) :
          path[i] = "." =>
              \E j \in 1..Len(path) : path[j] \notin {".", SLASH} /\ ~(\E m \in (IF j < i THEN j..i ELSE i..j) : path[m] = SLASH)

\* C18: for every relative path, normalize_relative_path fails with
\* PathTraversalAttempt exactly when, reading the components left to right, a
\* ".." is met with no pushed segment left to pop (a/../x gives x, ../x and
\* a/../../x fail); a result it returns is not empty and is made of normal
\* segments only, and its resolve(root) stays under root.
C18_TraversalExactlyWhenNothingToPop ==
    (last.op = "normalize_relative_path" /\ last.path # << >> /\ last.path[1] # SLASH) =>
        /\ last.res = "PathTraversalAttempt" <=> EscapesRoot(last.arg)
        /\ last.res \in {"ok", "PathTraversalAttempt", "EmptyPath"}
        /\ last.res = "ok" => OnlyNormalSegments(last.out) /\ last.val = 1
        /\ last.arg = << << "a" >>, DOTDOT, << "x" >> >> => last.res = "ok" /\ last.out = << "x" >>

\* a/../../x has been refused
C18_Witness ==
    /\ last.op = "normalize_relative_path"
    /\ last.path = << "a", "/", ".", ".", "/", ".", ".", "/", "x" >>
    /\ last.res = "PathTraversalAttempt"

(***************************************************************************)
(* The watcher adapter (src-tauri/src/locations.rs).  An event of the feed *)
(* is a kind and a list of absolute paths; a path is << area, relative >>. *)
(* The kinds: Create, ModifyData, ModifyName (a rename), RemoveFile,       *)
(* RemoveFolder, RemoveAny (the feed does not tell), Access, Other.        *)
(***************************************************************************)
\* a mutant of should_process_watcher_event: every kind is processed
should_process_any_kind(kind) == TRUE

should_process_watcher_event(kind) ==
    kind \in {"Create", "ModifyData", "ModifyName", "RemoveFile", "RemoveFolder", "RemoveAny"}

change_kind_from_event_kind(kind) ==
    IF kind = "Create" THEN "Created"
    ELSE IF kind \in {"RemoveFile", "RemoveFolder", "RemoveAny"} THEN "Deleted"
    ELSE IF kind = "ModifyName" THEN "Renamed"
    ELSE "Modified"

\* relative_path: path.strip_prefix(root_path), not empty (no symbolic links)
relative_path(root, path) ==
    IF path[1] = root /\ path[2] # << >> THEN Some(path[2]) ELSE None

\* the place on disk an event path names
PathOnDisk(path) == IF path[1] \in Roots THEN OsResolve(path[1], path[2]) ELSE path

\* a mutant of PathIsFile: no path is seen as a file
PathIsFileNever(path) == FALSE

\* path.exists() && path.is_file()
PathIsFile(path) == IsFile(files, PathOnDisk(path))

\* path.is_dir()
PathIsDir(path) == IsDir(dirs, PathOnDisk(path))

\* the notifications
DocModifiedExternally(rel) ==
    [type |-> "DocModifiedExternally", entry |-> "File", change |-> "Modified",
     rel |-> rel, old |-> None]
FilesystemChanged(entry, change, rel, old) ==
    [type |-> "FilesystemChanged", entry |-> entry, change |-> change, rel |-> rel, old |-> old]

\* what the handler has done so far: the tables, the result of its last store
\* call, the calls of reconcile_location_index, reindex_document and
\* remove_document_from_index it made, and the notifications it emitted
Handled(docs, fts) ==
    [documents |-> docs, docs_fts |-> fts, res |-> "ok", reconciles |-> 0,
     reindexed |-> << >>, removed |-> << >>, emitted |-> << >>]

emit(w, notification) == [w EXCEPT !.emitted = Append(@, notification)]

\* store.reindex_document(doc_id) called by the handler
Reindex(w, l, rel) ==
    Bind(reindex_document_in(w.documents, w.docs_fts, l, rel),
         LAMBDA t : [w EXCEPT !.documents = t.documents, !.docs_fts = t.docs_fts,
                              !.res = t.res, !.reindexed = Append(@, rel)])

\* store.reconcile_location_index(location_id) called by the handler
Reconcile(w, l) ==
    Bind(reconcile_location_index_in(w.documents, w.docs_fts, l),
         LAMBDA t : [w EXCEPT !.documents = t.documents, !.docs_fts = t.docs_fts,
                              !.res = t.res, !.reconciles = @ + 1])

\* a mutant of remove_document_from_index_if_present: nothing is removed
remove_document_from_index_skipped(w, l, rel) == w

remove_document_from_index_if_present(w, l, rel) ==
    [w EXCEPT !.documents = remove_document_row(@, << l, rel >>),
              !.docs_fts = remove_fts_entry(@, << l, rel >>),
              !.removed = Append(@, rel)]

\* What a branch of the handler asks of the store and of the front end, in
\* the order of the code: remove the rows of one path, reindex one path,
\* reconcile the location (always, or only when the reindex failed), then
\* emit DocModifiedExternally and FilesystemChanged.
Branch(remove, reindex, reconcile, fallback, doc, changed) ==
    [remove |-> remove, reindex |-> reindex, reconcile |-> reconcile,
     fallback |-> fallback, doc |-> doc, changed |-> changed]

\* return, continue: nothing is asked
Ignored == Branch(None, None, FALSE, FALSE, None, None)

reconcile_directory_index_and_emit(rel, change_kind, old) ==
    Branch(None, None, TRUE, FALSE, None,
           Some(FilesystemChanged("Directory", change_kind, rel, old)))

\* a mutant of reindex_document_and_emit: a failed reindex is only logged
reindex_document_without_fallback(rel, change_kind) ==
    Branch(None, Some(rel), FALSE, FALSE, Some(rel),
           Some(FilesystemChanged("File", change_kind, rel, None)))

reindex_document_and_emit(rel, change_kind) ==
    Branch(None, Some(rel), FALSE, TRUE, Some(rel),
           Some(FilesystemChanged("File", change_kind, rel, None)))

handle_rename_event(root, paths) ==
    IF Len(paths) < 2 THEN Ignored
    ELSE LET old_rel == relative_path(root, paths[1])
             new_rel == relative_path(root, paths[2])
         IN IF ~IsSome(old_rel) \/ ~IsSome(new_rel) THEN Ignored
            ELSE IF PathIsDir(paths[2]) \/ PathIsDir(paths[1])
            THEN reconcile_directory_index_and_emit(new_rel[1], "Renamed", old_rel)
            ELSE LET old_id == normalize_relative_path(old_rel[1])
                     new_id == normalize_relative_path(new_rel[1])
                 IN IF ~old_id.ok \/ ~new_id.ok THEN Ignored
                    ELSE Branch(Some(old_id.path), Some(new_id.path), FALSE, TRUE,
                                Some(new_id.path),
                                Some(FilesystemChanged("File", "Renamed", new_id.path,
                                                       Some(old_id.path))))

\* the body of the loop over event.paths
HandlePath(root, kind, path) ==
    LET rel == relative_path(root, path)
        change_kind == change_kind_from_event_kind(kind)
    IN IF ~IsSome(rel) THEN Ignored
       ELSE IF PathIsDir(path)
       THEN reconcile_directory_index_and_emit(rel[1], change_kind, None)
       ELSE LET doc_id == normalize_relative_path(rel[1]) IN
            IF ~doc_id.ok THEN Ignored
            ELSE IF PathIsFile(path)
            THEN reindex_document_and_emit(doc_id.path, change_kind)
            ELSE IF Exists(files, dirs, PathOnDisk(path)) THEN Ignored
            ELSE IF kind = "RemoveFolder"
            THEN reconcile_directory_index_and_emit(rel[1], "Deleted", None)
            ELSE Branch(Some(doc_id.path), None, FALSE, FALSE, Some(doc_id.path),
                        Some(FilesystemChanged("File", "Deleted", doc_id.path, None)))

\* the notifications of a branch: DocModifiedExternally when the reindex (or
\* the removal) went through, FilesystemChanged unless the reconcile of a
\* directory branch failed
Emits(w, b, reindex_ok, reconcile_ok) ==
    Bind(IF IsSome(b.doc) /\ reindex_ok THEN emit(w, DocModifiedExternally(b.doc[1])) ELSE w,
         LAMBDA w1 : IF IsSome(b.changed) /\ (b.reconcile => reconcile_ok)
                     THEN emit(w1, b.changed[1]) ELSE w1)

\* the store calls of a branch, in the order of the code, then its notifications
Perform(w, l, b) ==
    Bind(IF IsSome(b.remove)
         THEN remove_document_from_index_if_present(w, l, b.remove[1]) ELSE w,
         LAMBDA w1 :
            Bind(IF IsSome(b.reindex) THEN Reindex(w1, l, b.reindex[1]) ELSE w1,
                 LAMBDA w2 :
                    Bind(IF b.reconcile \/ (IsSome(b.reindex) /\ w2.res # "ok" /\ b.fallback)
                         THEN Reconcile(w2, l) ELSE w2,
                         LAMBDA w3 : Emits(w3, b, ~IsSome(b.reindex) \/ w2.res = "ok",
                                           w3.res = "ok"))))

RECURSIVE PerformAll(_, _, _)
PerformAll(w, l, branches) ==
    IF branches = << >> THEN w
    ELSE Bind(Perform(w, l, branches[1]), LAMBDA w1 : PerformAll(w1, l, Tail(branches)))

handle_watcher_event(l, root, kind, paths) ==
    PerformAll(Handled(documents, docs_fts), l,
               IF ~should_process_watcher_event(kind) THEN << >>
               ELSE IF kind = "ModifyName" THEN << handle_rename_event(root, paths) >>
               ELSE [i \in 1..Len(paths) |-> HandlePath(root, kind, paths[i])])

(***************************************************************************)
(* The watcher specification: location 1 is watched; other programs change *)
(* the disk, the feed delivers events (true ones or not, in any order),    *)
(* and the store reconciles on request.                                    *)
(***************************************************************************)
WatchEvents ==
    {<< "Create", << << "R1", P_f >> >> >>,
     << "ModifyData", << << "R1", P_f >> >> >>,
     << "ModifyData", << << "R1", P_h >>, << "R1", AF >> >> >>,
     << "ModifyData", << << "R1", D_a >> >> >>,
     << "Create", << << "R1", D_n >> >> >>,
     << "Create", << << OUTSIDE, P_f >> >> >>,
     << "ModifyData", << << "R1", UpE >> >> >>,
     << "RemoveFile", << << "R1", AF >> >> >>,
     << "RemoveAny", << << "R1", P_f >> >> >>,
     << "RemoveFolder", << << "R1", D_a >> >> >>,
     << "RemoveAny", << << "R1", D_a >> >> >>,
     << "ModifyName", << << "R1", P_f >>, << "R1", P_h >> >> >>,
     << "ModifyName", << << "R1", P_u >>, << "R1", P_h >> >> >>,
     << "ModifyName", << << "R1", P_f >> >> >>,
     << "ModifyName", << << "R1", D_a >>, << "R1", D_n >> >> >>,
     << "Access", << << "R1", P_f >> >> >>,
     << "Other", << << "R1", D_a >> >> >>}

ExtRenames == {<< "R1", P_f, P_h >>, << "R1", P_u, P_h >>, << "R1", D_a, D_n >>}
ExtDirRemovals == {<< "R1", D_a >>}

WatcherEvent(l, kind, paths) ==
    \E w \in {handle_watcher_event(l, locations[l], kind, paths)} :
    MayCall /\ Returns(Call("watcher_event", l, paths, kind, << >>),
                       Outcome("ok", w.reconciles,
                               [reindexed |-> w.reindexed, removed |-> w.removed,
                                emitted |-> w.emitted],
                               files, dirs, clock, w.documents, w.docs_fts))

\* another program renames a file or a directory
ExternalRename(root, from, to) ==
    /\ exts < MaxExt
    /\ Exists(files, dirs, << root, from >>)
    /\ ~Exists(files, dirs, << root, to >>)
    /\ files' = RenameFiles(files, << root, from >>, << root, to >>)
    /\ dirs' = RenameDirs(dirs, << root, from >>, << root, to >>)
    /\ exts' = exts + 1
    /\ last' = OutOfBand
    /\ UNCHANGED << locations, sqlite_sequence, app_settings, watchers, clock, documents, docs_fts, nops, pc, tv >>

\* another program removes a directory and all below it
ExternalRemoveDir(root, dir) ==
    /\ exts < MaxExt
    /\ IsDir(dirs, << root, dir >>)
    /\ files' = RemoveTreeFiles(files, << root, dir >>)
    /\ dirs' = RemoveTreeDirs(dirs, << root, dir >>)
    /\ exts' = exts + 1
    /\ last' = OutOfBand
    /\ UNCHANGED << locations, sqlite_sequence, app_settings, watchers, clock, documents, docs_fts, nops, pc, tv >>

NextWatch ==
    \/ ReconcileLocation(1)
    \/ \E e \in WatchEvents : WatcherEvent(1, e[1], e[2])
    \/ \E x \in ExtDeletes : ExternalDelete(x[1], x[2])
    \/ \E x \in ExtWrites : ExternalWrite(x[1], x[2], x[3])
    \/ \E x \in ExtRenames : ExternalRename(x[1], x[2], x[3])
    \/ \E x \in ExtDirRemovals : ExternalRemoveDir(x[1], x[2])

SpecWatch == Init /\ [][NextWatch]_vars

(***************************************************************************)
(* Properties of the watcher adapter.  After a watcher event last.arg is   *)
(* the kind, last.path the paths, last.val the number of calls of          *)
(* reconcile_location_index the handler made, and last.out what it         *)
(* reindexed, removed and emitted.                                         *)
(***************************************************************************)
Watched(kinds) == last.op = "watcher_event" /\ last.arg \in kinds

\* a file is on disk at the place the event path names
OnDiskAsFile(path) == IsFile(files, PathOnDisk(path))

\* the path cannot be made relative to the root, or is not a valid DocId path
NotADocument(root, path) ==
    \/ ~IsSome(relative_path(root, path))
    \/ ~normalize_relative_path(relative_path(root, path)[1]).ok

\* the event cannot be applied incrementally for a reason seen in the event:
\* a rename without both paths, a path outside the root or not valid
CannotApply(root, kind, paths) ==
    \/ kind = "ModifyName" /\ Len(paths) < 2
    \/ \E i \in 1..Len(paths) : NotADocument(root, paths[i])

\* C21: every branch of the watcher adapter falls back to the full rescan:
\* when an event of a processed kind cannot be applied incrementally (a
\* rename event without both paths, a path that fails validation or cannot be
\* made relative to the root), reconcile_location_index is called.
C21_EveryBranchFallsBack ==
    (/\ Watched({"Create", "ModifyData", "ModifyName", "RemoveFile", "RemoveFolder", "RemoveAny"})
     /\ CannotApply(locations[last.loc], last.arg, last.path))
        => last.val >= 1

RemoveKinds == {"RemoveFile", "RemoveFolder", "RemoveAny"}

\* no catalog row and no docs_fts row of location l lies below the directory dir
NoRowsBelow(l, dir) ==
    /\ \A rel \in CatalogPaths(documents, l) : ~Below(rel, dir)
    /\ \A r \in FtsRowsOf(docs_fts, l) : ~Below(r.rel_path, dir)

\* path names a place under the root of l where nothing is on disk
GoneFromDisk(l, path) ==
    IsSome(relative_path(locations[l], path)) /\ ~Exists(files, dirs, PathOnDisk(path))

\* C22: a Create or Modify event on a directory and a Rename event where
\* either side is a directory call reconcile_location_index, and so does a
\* Remove event of a directory whatever remove kind the feed reports: after
\* the event no catalog row and no docs_fts row remains for a file below the
\* removed or renamed directory.
C22_DirectoryEventsReconcile ==
    /\ (Watched({"Create", "ModifyData"}) /\ \E i \in 1..Len(last.path) :
            IsSome(relative_path(locations[last.loc], last.path[i])) /\ PathIsDir(last.path[i]))
          => last.val >= 1
    /\ (Watched({"ModifyName"}) /\ Len(last.path) = 2
          /\ (\A i \in 1..2 : IsSome(relative_path(locations[last.loc], last.path[i])))
          /\ (PathIsDir(last.path[1]) \/ PathIsDir(last.path[2])))
          => /\ last.val >= 1
             /\ GoneFromDisk(last.loc, last.path[1]) => NoRowsBelow(last.loc, last.path[1][2])
    /\ Watched(RemoveKinds) =>
          \A i \in 1..Len(last.path) :
              GoneFromDisk(last.loc, last.path[i]) => NoRowsBelow(last.loc, last.path[i][2])

\* the event names one path, a valid document path under the root of the location
OneDocument(rel) ==
    /\ Len(last.path) = 1
    /\ relative_path(locations[last.loc], last.path[1]) = Some(rel)
    /\ normalize_relative_path(rel).ok /\ normalize_relative_path(rel).path = rel

\* the catalog row and the docs_fts rows of (l, rel) are those of the file on
\* disk: a catalog row with its size and modification time, and one docs_fts
\* row with its decoded text when it is indexable and decodes, none otherwise
RowsAgreeWithFile(l, rel) ==
    LET k == << locations[l], rel >> IN
    /\ << l, rel >> \in DOMAIN documents
    /\ documents[<< l, rel >>].size_bytes = Len(files[k].bytes.words)
    /\ documents[<< l, rel >>].mtime = files[k].mtime
    /\ FtsCount(docs_fts, l, rel) = IF IndexableDecodable(l, rel) THEN 1 ELSE 0
    /\ \A r \in FtsRowsOf(docs_fts, l) :
          r.rel_path = rel => r.content = detect_and_decode(files[k].bytes).text

\* C23: a Create or Modify event for an existing file reindexes exactly that
\* document; reconcile_location_index is called exactly when the reindex
\* fails (the file is indexable and its bytes do not decode); afterwards the
\* catalog row and the docs_fts rows of the document agree with the file.
C23_FileEventReindexes ==
    \A rel \in {last.path[i][2] : i \in 1..Len(last.path)} :
        (Watched({"Create", "ModifyData"}) /\ OneDocument(rel) /\ OnDiskAsFile(last.path[1])) =>
            /\ last.out.reindexed = << rel >>
            /\ last.out.removed = << >>
            /\ last.val = IF Undecodable(last.loc, rel) THEN 1 ELSE 0
            /\ RowsAgreeWithFile(last.loc, rel)

\* f.md, indexed before, was rewritten out of band with bytes that do not
\* decode; the Modify event has reindexed it, fallen back to the reconcile and
\* left no docs_fts row for it
C23_Witness ==
    /\ Watched({"ModifyData"}) /\ last.path = << << "R1", P_f >> >>
    /\ Undecodable(1, P_f)
    /\ exts = 1 /\ nops >= 2
    /\ last.out.reindexed = << P_f >>
    /\ last.val = 1
    /\ FtsCount(docs_fts, 1, P_f) = 0

\* the event is a rename with both paths, valid document paths under the root
\* of the location, neither of them a directory
RenameOfDocument(old, new) ==
    /\ Watched({"ModifyName"}) /\ Len(last.path) = 2
    /\ relative_path(locations[last.loc], last.path[1]) = Some(old)
    /\ relative_path(locations[last.loc], last.path[2]) = Some(new)
    /\ normalize_relative_path(old).ok /\ normalize_relative_path(old).path = old
    /\ normalize_relative_path(new).ok /\ normalize_relative_path(new).path = new
    /\ ~PathIsDir(last.path[1]) /\ ~PathIsDir(last.path[2])

\* no catalog row and no docs_fts row of (l, rel)
NoRowsOf(l, rel) ==
    << l, rel >> \notin DOMAIN documents /\ FtsCount(docs_fts, l, rel) = 0

\* C24: a Rename event between two files removes the rows of the old DocRef,
\* then reindexes the new one, and calls reconcile_location_index exactly when
\* that reindex fails; afterwards, the old path being gone and the new one a
\* file, no catalog or docs_fts row has the old path and the rows of the new
\* path agree with the file on disk.
C24_FileRenameMovesRows ==
    \A old, new \in {last.path[i][2] : i \in 1..Len(last.path)} :
        RenameOfDocument(old, new) =>
            /\ last.out.removed = << old >>
            /\ last.out.reindexed = << new >>
            /\ last.val = IF Undecodable(last.loc, new) THEN 1 ELSE 0
            /\ (GoneFromDisk(last.loc, last.path[1]) /\ OnDiskAsFile(last.path[2])) =>
                  /\ NoRowsOf(last.loc, old)
                  /\ RowsAgreeWithFile(last.loc, new)

\* f.md, catalogued and indexed, was renamed to h.md out of band; the Rename
\* event has removed the rows of f.md and written those of h.md
C24_Witness ==
    /\ RenameOfDocument(P_f, P_h)
    /\ exts = 1 /\ nops >= 2
    /\ GoneFromDisk(1, << "R1", P_f >>) /\ OnDiskAsFile(<< "R1", P_h >>)
    /\ last.out.removed = << P_f >>
    /\ NoRowsOf(1, P_f)
    /\ FtsCount(docs_fts, 1, P_h) = 1

\* u.md, whose bytes do not decode, was renamed to h.md out of band; the
\* reindex of h.md has failed and the handler has reconciled
C24_FallbackReached ==
    /\ RenameOfDocument(P_u, P_h)
    /\ GoneFromDisk(1, << "R1", P_u >>) /\ Undecodable(1, P_h)
    /\ last.val = 1
    /\ NoRowsOf(1, P_u)

\* C25: a Remove event for a file removes the rows of its document only when
\* the path is verified absent: then the handler removes them and no catalog
\* or docs_fts row of the path remains; when the path exists again as a file
\* the document is reindexed instead, nothing is removed and its rows are
\* kept, agreeing with the file.
C25_RemoveOnlyWhenAbsent ==
    \A rel \in {last.path[i][2] : i \in 1..Len(last.path)} :
        (Watched({"RemoveFile", "RemoveAny"}) /\ OneDocument(rel)) =>
            /\ OnDiskAsFile(last.path[1]) =>
                  /\ last.out.removed = << >>
                  /\ last.out.reindexed = << rel >>
                  /\ RowsAgreeWithFile(last.loc, rel)
            /\ last.out.removed # << >> =>
                  /\ ~Exists(files, dirs, PathOnDisk(last.path[1]))
                  /\ last.out.removed = << rel >>
                  /\ NoRowsOf(last.loc, rel)
            /\ ~Exists(files, dirs, PathOnDisk(last.path[1])) => NoRowsOf(last.loc, rel)

\* a Remove event for f.md, which is on disk and was not catalogued: the
\* handler has reindexed it and removed nothing
C25_Witness ==
    /\ Watched({"RemoveAny"}) /\ last.path = << << "R1", P_f >> >>
    /\ OnDiskAsFile(<< "R1", P_f >>)
    /\ last.out.removed = << >>
    /\ last.out.reindexed = << P_f >>
    /\ FtsCount(docs_fts, 1, P_f) = 1

\* a Remove event for a/f.md, catalogued and then deleted out of band: the
\* handler has removed its rows
C25_RemovedReached ==
    /\ Watched({"RemoveFile"}) /\ last.path = << << "R1", AF >> >>
    /\ exts = 1 /\ nops >= 2
    /\ last.out.removed = << AF >>
    /\ << 1, AxF >> \in DOMAIN documents
    /\ NoRowsOf(1, AF)

\* C26: an event whose kind is not Create, Modify, Remove or Rename (Access,
\* Other, Any) is ignored: no store call is made, no catalog row and no
\* docs_fts row changes, and no notification is emitted.
C26_OtherKindsIgnored ==
    [][(Calls({"watcher_event"}) /\ last'.arg \in {"Access", "Other"}) =>
          /\ UNCHANGED << documents, docs_fts >>
          /\ last'.val = 0
          /\ last'.out.reindexed = << >> /\ last'.out.removed = << >>
          /\ last'.out.emitted = << >>]_vars

\* an Access event for f.md, on disk and not catalogued, has been ignored
C26_Witness ==
    /\ Watched({"Access"}) /\ last.path = << << "R1", P_f >> >>
    /\ OnDiskAsFile(<< "R1", P_f >>)
    /\ << 1, P_f >> \notin DOMAIN documents
    /\ last.out.emitted = << >>

(***************************************************************************)
(* Properties of the index as a whole                                      *)
(***************************************************************************)
\* C27: after any sequence of store operations (upsert by doc_save, reindex
\* and reconcile, document rename and move, directory rename and move)
\* docs_fts never holds more than one row with the same (location_id,
\* rel_path).
C27_OneIndexRowPerDocument ==
    \A r \in DOMAIN docs_fts :
        FtsCount(docs_fts, r.location_id, r.rel_path) <= 1

(***************************************************************************)
(* The location registry (crates/store/src/lib.rs).  Table locations has   *)
(* id INTEGER PRIMARY KEY AUTOINCREMENT and root_path UNIQUE; documents    *)
(* declares FOREIGN KEY (location_id) REFERENCES locations(id) ON DELETE   *)
(* CASCADE.  The store opens its connection with Connection::open and      *)
(* issues no PRAGMA foreign_keys: whether the constraint is enforced is    *)
(* the default the SQLite library was built with, ON or OFF.               *)
(***************************************************************************)
README == << "R", "E", "A", "D", "M", "E", ".", "m", "d" >>
README_TEMPLATE == TextA

\* the outcome of a registry call
Registry(res, val, locs, seq, fs, clk, docs) ==
    [res |-> res, val |-> val, locations |-> locs, sqlite_sequence |-> seq,
     files |-> fs, clock |-> clk, documents |-> docs]

\* a mutant of RootPathRegistered: the UNIQUE constraint is not there
RootPathNeverRegistered(locs, root_path) == FALSE

\* the INSERT fails with "UNIQUE constraint failed: locations.root_path"
RootPathRegistered(locs, root_path) == \E id \in DOMAIN locs : locs[id] = root_path

\* Store::location_add; create_readme is settings.create_readme_in_new_locations
location_add(root_path, create_readme) ==
    IF RootPathRegistered(locations, root_path)
    THEN Registry("Conflict", 0, locations, sqlite_sequence, files, clock, documents)
    ELSE LET id == sqlite_sequence + 1
             readme_path == << root_path, README >>
             locs == Put(locations, id, root_path)
         IN IF /\ create_readme
               /\ ~Exists(files, dirs, readme_path)
               /\ IsDir(dirs, << root_path, RootDir >>)
            THEN Registry("ok", id, locs, id,
                          WriteFile(files, readme_path, README_TEMPLATE, clock + 1),
                          clock + 1, documents)
            ELSE Registry("ok", id, locs, id, files, clock, documents)

\* a mutant of CascadeDelete: the rows of the location are left
CascadeNothing(docs, id) == docs

\* ON DELETE CASCADE of documents.location_id, when foreign keys are enforced
CascadeDelete(docs, id) == Drop(docs, {k \in DOMAIN docs : k[1] = id})

\* Store::location_remove; foreign_keys is the setting of the connection
location_remove(id, foreign_keys) ==
    IF ~Registered(id)
    THEN Registry("ok", 0, locations, sqlite_sequence, files, clock, documents)
    ELSE Registry("ok", 1, Drop(locations, {id}), sqlite_sequence, files, clock,
                  IF foreign_keys THEN CascadeDelete(documents, id) ELSE documents)

\* the step of one call with outcome o on the registry that leaves the
\* watchers ws
CommandReturns(call, o, ws) ==
    /\ locations' = o.locations
    /\ sqlite_sequence' = o.sqlite_sequence
    /\ watchers' = ws
    /\ UNCHANGED app_settings
    /\ files' = o.files
    /\ clock' = o.clock
    /\ documents' = o.documents
    /\ last' = [op |-> call.op, loc |-> call.loc, path |-> call.path, arg |-> call.arg,
                text |-> call.text, res |-> o.res, val |-> o.val, out |-> << >>,
                again |-> /\ last.op = call.op /\ last.loc = call.loc /\ last.path = call.path
                          /\ last.res = "ok" /\ o.res = "ok"]
    /\ nops' = nops + 1
    /\ UNCHANGED << dirs, docs_fts, exts, pc, tv >>

\* the step of one call of the store's registry operations with outcome o
RegistryReturns(call, o) == CommandReturns(call, o, watchers)

LocationAdd(root_path, create_readme) ==
    MayCall /\ RegistryReturns(Call("location_add", 0, root_path, create_readme, << >>),
                               location_add(root_path, create_readme))

LocationRemove(id) ==
    \E foreign_keys \in BOOLEAN :
        MayCall /\ RegistryReturns(Call("location_remove", id, << >>, foreign_keys, << >>),
                                   location_remove(id, foreign_keys))

\* the registry specification: locations are added and removed while
\* documents are saved and locations reconciled
AllLocIds == {1, 2, 3}
LocSaveCalls == {<< 1, P_f, TextA >>, << 2, AF, TextB >>, << 3, P_f, TextB >>}

DirCreate(l, rel_path) ==
    MayCall /\ Returns(Call("dir_create", l, rel_path, << >>, << >>), dir_create(l, rel_path))

\* the other operations on documents and directories, called on the three ids
LocDirCreateCalls == {D_n, AF, UpE}

NextLoc ==
    \/ \E root \in Roots, create_readme \in BOOLEAN : LocationAdd(root, create_readme)
    \/ \E id \in AllLocIds : LocationRemove(id)
    \/ \E x \in LocSaveCalls : DocSave(x[1], x[2], x[3])
    \/ \E l \in AllLocIds : ReconcileLocation(l)
    \/ \E l \in AllLocIds : ReindexDocument(l, P_f)
    \/ \E l \in AllLocIds : DocOpen(l, P_f)
    \/ \E l \in AllLocIds : DocRename(l, P_f, P_h)
    \/ \E l \in AllLocIds : DocMove(l, P_f, NF)
    \/ \E l \in AllLocIds : DocDelete(l, P_f)
    \/ \E l \in AllLocIds, rel_path \in LocDirCreateCalls : DirCreate(l, rel_path)
    \/ \E l \in AllLocIds : DirRename(l, D_a, D_n)
    \/ \E l \in AllLocIds : DirMove(l, D_a, D_n)
    \/ \E l \in AllLocIds : DirDelete(l, D_a)
    \/ \E root \in ExtRootRemovals : ExternalRemoveRoot(root)

SpecLoc == Init /\ [][NextLoc]_vars

(***************************************************************************)
(* Properties of the location registry                                     *)
(***************************************************************************)
\* the root paths of the registered locations
RegisteredRoots(locs) == {locs[id] : id \in DOMAIN locs}

\* no two registered locations have the same root_path
UniqueRoots(locs) == \A i, j \in DOMAIN locs : locs[i] = locs[j] => i = j

\* C28: no two registered locations share a root_path: location_add with a
\* root_path that is registered returns Conflict, leaves the registry as it
\* was and writes nothing into the directory (no README.md, whatever the
\* setting); a location_add that succeeds registers the path under a new id.
C28_DuplicateRootIsConflict ==
    [][/\ UniqueRoots(locations')
       /\ (Calls({"location_add"}) /\ last'.path \in RegisteredRoots(locations)) =>
             /\ last'.res = "Conflict"
             /\ UNCHANGED << locations, sqlite_sequence, app_settings, watchers, files, dirs, documents, docs_fts >>
       /\ (Calls({"location_add"}) /\ last'.path \notin RegisteredRoots(locations)) =>
             /\ last'.res = "ok"
             /\ last'.val \notin DOMAIN locations
             /\ locations' = Put(locations, last'.val, last'.path)]_vars

\* location_add of a registered root whose directory is on disk and has no
\* README.md, the setting asking for one: Conflict, and still no README.md
C28_Witness ==
    /\ last.op = "location_add" /\ last.res = "Conflict" /\ last.arg = TRUE
    /\ last.path \in RegisteredRoots(locations)
    /\ IsDir(dirs, << last.path, RootDir >>)
    /\ ~IsFile(files, << last.path, README >>)

\* every catalog row refers to a registered location
RowsHaveLocations(locs, docs) == \A k \in DOMAIN docs : k[1] \in DOMAIN locs

\* what location_remove does to the registry: true for a registered id, which
\* is then neither listed nor gettable; false for any other id, and then
\* nothing changes
RemovesFromRegistry ==
    Calls({"location_remove"}) =>
        IF last'.loc \in DOMAIN locations
        THEN /\ last'.res = "ok" /\ last'.val = 1
             /\ locations' = Drop(locations, {last'.loc})
        ELSE /\ last'.res = "ok" /\ last'.val = 0
             /\ UNCHANGED << locations, sqlite_sequence, app_settings, watchers, files, dirs, documents, docs_fts >>

DiskAndTableOps ==
    {"doc_save", "doc_rename", "doc_move", "doc_delete", "dir_rename", "dir_move", "dir_delete"}

\* after the step, the filesystem change of the call is on disk: the file
\* holds the saved text, the renamed, moved or deleted file or directory is
\* no longer at its old path
FilesystemStepDone ==
    LET k == << locations[last'.loc], last'.path >>
        d == << locations[last'.loc], Normal(last'.path) >>
    IN CASE last'.op = "doc_save" ->
              IsFile(files', k) /\ files'[k].bytes = Utf8Bytes(last'.text)
         [] last'.op \in {"doc_rename", "doc_move", "doc_delete"} ->
              ~Exists(files', dirs', k)
         [] OTHER -> ~IsDir(dirs', d)

\* C30: in every document and directory operation that changes both, the
\* filesystem change comes before any write of the catalog or the index: when
\* the filesystem step of doc_save, doc_rename, doc_move, doc_delete,
\* dir_rename, dir_move or dir_delete fails, no catalog row and no docs_fts
\* row has changed, and whenever such a call has changed a row its filesystem
\* change is on disk.
C30_FilesystemBeforeTables ==
    [][Calls(DiskAndTableOps) =>
          /\ (last'.res = "Io" /\ files' = files) => UNCHANGED << documents, docs_fts >>
          /\ (<< documents, docs_fts >>' # << documents, docs_fts >>) => FilesystemStepDone]_vars

\* doc_save onto a path where a directory is, with rows in the catalog: the
\* write has failed
C30_Witness ==
    /\ last.op = "doc_save" /\ last.res = "Io"
    /\ IsDir(dirs, << locations[last.loc], last.path >>)
    /\ << last.loc, last.path >> \notin DOMAIN documents
    /\ documents # EmptyFn

(***************************************************************************)
(* The session: the tabs the user has open, kept as one JSON value under   *)
(* session_state in app_settings, and the document last open, kept under   *)
(* last_open_doc.  serde writes and reads back every field of the session  *)
(* as it is, so the value stored is the session itself.                    *)
(***************************************************************************)
MaxSessionOps == 5

DIGITS == << "0", "1", "2", "3", "4", "5", "6", "7", "8", "9" >>

\* to_string of an unsigned integer
RECURSIVE Decimal(_)
Decimal(n) ==
    IF n < 10 THEN << DIGITS[n + 1] >> ELSE Decimal(n \div 10) \o << DIGITS[(n % 10) + 1] >>

\* format!("tab-{}", n)
TabId(n) == << "t", "a", "b", "-" >> \o Decimal(n)

DocRef(l, rel) == [location_id |-> l, rel_path |-> rel]

SessionTab(id, doc_ref, title, is_modified) ==
    [id |-> id, doc_ref |-> doc_ref, title |-> title, is_modified |-> is_modified]

\* SessionState::default()
DefaultSession == [tabs |-> << >>, active_tab_id |-> None, next_tab_id |-> 0]

\* Vec::retain
Retain(seq, Keep(_)) == SelectSeq(seq, Keep)

\* iter().position: the index of the first tab with the id, 0 when none has it
Position(tabs, id) ==
    IF \E i \in DOMAIN tabs : tabs[i].id = id
    THEN CHOOSE i \in DOMAIN tabs : tabs[i].id = id /\ \A j \in 1..(i - 1) : tabs[j].id # id
    ELSE 0

\* Vec::remove
RemoveAt(seq, i) == [j \in 1..(Len(seq) - 1) |-> IF j < i THEN seq[j] ELSE seq[j + 1]]

\* retain(|tab| seen_ids.insert(tab.id)): the first tab of every id stays
RECURSIVE RetainFirstOfId(_, _)
RetainFirstOfId(tabs, seen_ids) ==
    IF tabs = << >> THEN << >>
    ELSE IF Head(tabs).id \in seen_ids THEN RetainFirstOfId(Tail(tabs), seen_ids)
    ELSE << Head(tabs) >> \o RetainFirstOfId(Tail(tabs), seen_ids \cup {Head(tabs).id})

\* a mutant of normalize_session_state: the session is left as it is
normalize_session_state_skipped(session) == session

normalize_session_state(session) ==
    LET tabs == RetainFirstOfId(Retain(session.tabs, LAMBDA tab : tab.id # << >>), {})
    IN [tabs |-> tabs,
        active_tab_id |->
            IF tabs = << >> THEN None
            ELSE IF ~(/\ IsSome(session.active_tab_id)
                      /\ \E i \in DOMAIN tabs : tabs[i].id = session.active_tab_id[1])
            THEN Some(tabs[1].id)
            ELSE session.active_tab_id,
        next_tab_id |-> IF session.next_tab_id = 0 THEN 1 ELSE session.next_tab_id]

session_get_locked(settings) ==
    normalize_session_state(IF IsSome(settings.session_state)
                            THEN settings.session_state[1]
                            ELSE DefaultSession)

\* a mutant of session_set_locked: last_open_doc is left as it is
session_set_without_last_open_doc(settings, session) ==
    [settings EXCEPT !.session_state = Some(session)]

\* the two rows after the session is stored: last_open_doc follows the active
\* tab, and is deleted when no tab has the active id
session_set_locked(settings, session) ==
    [session_state |-> Some(session),
     last_open_doc |->
        IF /\ IsSome(session.active_tab_id)
           /\ Position(session.tabs, session.active_tab_id[1]) # 0
        THEN Some(session.tabs[Position(session.tabs, session.active_tab_id[1])].doc_ref)
        ELSE None]

last_open_doc_set(settings, doc_ref) == [settings EXCEPT !.last_open_doc = doc_ref]

\* what a session operation returns, the table it leaves, and whether it
\* stored the session
SessionResult(state, settings, persisted) ==
    [state |-> state, settings |-> settings, persisted |-> persisted]

\* the session is stored and returned
Persisted(state) == SessionResult(state, session_set_locked(app_settings, state), TRUE)

\* the session is returned and nothing is stored
NotPersisted(state) == SessionResult(state, app_settings, FALSE)

\* a mutant of session_open_tab: a tab is added also when the document has one
session_open_tab_always_new(doc_ref, title) ==
    LET state == session_get_locked(app_settings)
        tab_id == TabId(state.next_tab_id)
    IN Persisted([tabs |-> Append(state.tabs, SessionTab(tab_id, doc_ref, title, FALSE)),
                  active_tab_id |-> Some(tab_id),
                  next_tab_id |-> state.next_tab_id + 1])

session_open_tab(doc_ref, title) ==
    LET state == session_get_locked(app_settings)
        tab_id == TabId(state.next_tab_id)
    IN IF \E i \in DOMAIN state.tabs : state.tabs[i].doc_ref = doc_ref
       THEN LET existing_tab ==
                    state.tabs[CHOOSE i \in DOMAIN state.tabs :
                                  /\ state.tabs[i].doc_ref = doc_ref
                                  /\ \A j \in 1..(i - 1) : state.tabs[j].doc_ref # doc_ref]
            IN Persisted([state EXCEPT !.active_tab_id = Some(existing_tab.id)])
       ELSE Persisted([tabs |-> Append(state.tabs, SessionTab(tab_id, doc_ref, title, FALSE)),
                       active_tab_id |-> Some(tab_id),
                       next_tab_id |-> state.next_tab_id + 1])

session_select_tab(tab_id) ==
    LET state == session_get_locked(app_settings)
    IN IF \E i \in DOMAIN state.tabs : state.tabs[i].id = tab_id
       THEN Persisted([state EXCEPT !.active_tab_id = Some(tab_id)])
       ELSE NotPersisted(state)

\* a mutant of session_close_tab: the tab before the closed one becomes active
session_close_tab_activates_previous(tab_id) ==
    LET state == session_get_locked(app_settings)
        closed_tab_index == Position(state.tabs, tab_id)
        tabs == RemoveAt(state.tabs, closed_tab_index)
    IN IF closed_tab_index = 0 THEN NotPersisted(state)
       ELSE Persisted([state EXCEPT
                !.tabs = tabs,
                !.active_tab_id =
                    IF tabs = << >> THEN None
                    ELSE IF state.active_tab_id = Some(tab_id)
                    THEN Some(tabs[IF closed_tab_index > 1 THEN closed_tab_index - 1 ELSE 1].id)
                    ELSE state.active_tab_id])

session_close_tab(tab_id) ==
    LET state == session_get_locked(app_settings)
        closed_tab_index == Position(state.tabs, tab_id)
        tabs == RemoveAt(state.tabs, closed_tab_index)
        next_index == IF closed_tab_index < Len(tabs) THEN closed_tab_index ELSE Len(tabs)
    IN IF closed_tab_index = 0 THEN NotPersisted(state)
       ELSE Persisted([state EXCEPT
                !.tabs = tabs,
                !.active_tab_id =
                    IF tabs = << >> THEN None
                    ELSE IF state.active_tab_id = Some(tab_id)
                    THEN Some(tabs[next_index].id)
                    ELSE state.active_tab_id])

\* the loop of session_reorder_tabs: the tabs named, in the order named, and
\* the tabs left
RECURSIVE Reordered(_, _, _)
Reordered(tab_ids, remaining, reordered) ==
    IF tab_ids = << >> THEN reordered \o remaining
    ELSE LET index == Position(remaining, Head(tab_ids))
         IN IF index # 0
            THEN Reordered(Tail(tab_ids), RemoveAt(remaining, index),
                           Append(reordered, remaining[index]))
            ELSE Reordered(Tail(tab_ids), remaining, reordered)

session_reorder_tabs(tab_ids) ==
    LET state == session_get_locked(app_settings)
    IN IF state.tabs = << >> THEN NotPersisted(state)
       ELSE Persisted(normalize_session_state(
                [state EXCEPT !.tabs = Reordered(tab_ids, state.tabs, << >>)]))

session_mark_tab_modified(tab_id, is_modified) ==
    LET state == session_get_locked(app_settings)
        index == Position(state.tabs, tab_id)
    IN IF index # 0 /\ state.tabs[index].is_modified # is_modified
       THEN Persisted([state EXCEPT !.tabs[index].is_modified = is_modified])
       ELSE NotPersisted(state)

session_update_tab_doc(location_id, old_rel_path, new_doc_ref, title) ==
    LET state == session_get_locked(app_settings)
        Matches(tab) == tab.doc_ref = DocRef(location_id, old_rel_path)
        changed == \E i \in DOMAIN state.tabs : Matches(state.tabs[i])
    IN IF changed
       THEN Persisted([state EXCEPT !.tabs =
                [i \in DOMAIN state.tabs |->
                    IF Matches(state.tabs[i])
                    THEN [state.tabs[i] EXCEPT !.doc_ref = new_doc_ref, !.title = title]
                    ELSE state.tabs[i]]])
       ELSE NotPersisted(state)

\* session_drop_doc and session_prune_locations: the tabs kept, normalised
\* and stored when a tab went
RetainTabs(Keep(_)) ==
    LET state == session_get_locked(app_settings)
        tabs == Retain(state.tabs, Keep)
    IN IF Len(tabs) # Len(state.tabs)
       THEN Persisted(normalize_session_state([state EXCEPT !.tabs = tabs]))
       ELSE NotPersisted(state)

session_drop_doc(location_id, rel_path) ==
    RetainTabs(LAMBDA tab : tab.doc_ref # DocRef(location_id, rel_path))

session_prune_locations(valid_location_ids) ==
    RetainTabs(LAMBDA tab : tab.doc_ref.location_id \in valid_location_ids)

(***************************************************************************)
(* The session specification: every call of a session operation, or of     *)
(* last_open_doc_set, is one step.                                         *)
(***************************************************************************)
TitleA == << "A" >>
TitleB == << "B" >>
UnknownTabId == TabId(9)

SessionDocRefs == {DocRef(1, P_f), DocRef(1, P_g), DocRef(2, AF)}
SessionTabIds == {TabId(1), TabId(2), TabId(3), UnknownTabId, << >>}
ReorderCalls == {<< TabId(2), TabId(1) >>, << TabId(3) >>, << TabId(1), TabId(1) >>,
                 << UnknownTabId, TabId(2) >>, << >>}
UpdateDocCalls == {<< 1, P_f, DocRef(1, P_g) >>, << 1, P_g, DocRef(2, AF) >>}
DropDocCalls == {<< 1, P_f >>, << 1, P_g >>}
PruneCalls == {{1}, {2}, {1, 2}, {}}

MaySession == nops < MaxSessionOps

SessionReturns(call, o) ==
    /\ app_settings' = o.settings
    /\ last' = [NoCall EXCEPT !.op = call.op, !.loc = call.loc, !.path = call.path,
                               !.arg = call.arg, !.text = call.text, !.val = o.state,
                               !.out = [persisted |-> o.persisted,
                                        before |-> session_get_locked(app_settings)]]
    /\ nops' = nops + 1
    /\ UNCHANGED << locations, sqlite_sequence, watchers, files, dirs, clock, documents,
                    docs_fts, exts, pc, tv >>

SessionOpenTab(doc_ref, title) ==
    MaySession /\ SessionReturns(Call("session_open_tab", doc_ref.location_id, doc_ref.rel_path,
                                      << >>, title),
                                 session_open_tab(doc_ref, title))

SessionSelectTab(tab_id) ==
    MaySession /\ SessionReturns(Call("session_select_tab", 0, << >>, tab_id, << >>),
                                 session_select_tab(tab_id))

SessionCloseTab(tab_id) ==
    MaySession /\ SessionReturns(Call("session_close_tab", 0, << >>, tab_id, << >>),
                                 session_close_tab(tab_id))

SessionReorderTabs(tab_ids) ==
    MaySession /\ SessionReturns(Call("session_reorder_tabs", 0, << >>, tab_ids, << >>),
                                 session_reorder_tabs(tab_ids))

SessionMarkTabModified(tab_id, is_modified) ==
    MaySession /\ SessionReturns(Call("session_mark_tab_modified", 0, << >>, tab_id, << >>),
                                 session_mark_tab_modified(tab_id, is_modified))

SessionUpdateTabDoc(location_id, old_rel_path, new_doc_ref, title) ==
    MaySession /\ SessionReturns(Call("session_update_tab_doc", location_id, old_rel_path,
                                      new_doc_ref, title),
                                 session_update_tab_doc(location_id, old_rel_path, new_doc_ref, title))

SessionDropDoc(location_id, rel_path) ==
    MaySession /\ SessionReturns(Call("session_drop_doc", location_id, rel_path, << >>, << >>),
                                 session_drop_doc(location_id, rel_path))

SessionPruneLocations(valid_location_ids) ==
    MaySession /\ SessionReturns(Call("session_prune_locations", 0, << >>, valid_location_ids, << >>),
                                 session_prune_locations(valid_location_ids))

LastOpenDocSet(doc_ref) ==
    MaySession /\ SessionReturns(Call("last_open_doc_set", 0, << >>, doc_ref, << >>),
                                 SessionResult(session_get_locked(app_settings),
                                               last_open_doc_set(app_settings, doc_ref), FALSE))

NextSession ==
    \/ \E doc_ref \in SessionDocRefs : SessionOpenTab(doc_ref, TitleA)
    \/ \E tab_id \in SessionTabIds : SessionSelectTab(tab_id)
    \/ \E tab_id \in SessionTabIds : SessionCloseTab(tab_id)
    \/ \E tab_ids \in ReorderCalls : SessionReorderTabs(tab_ids)
    \/ \E is_modified \in BOOLEAN : SessionMarkTabModified(TabId(1), is_modified)
    \/ \E c \in UpdateDocCalls : SessionUpdateTabDoc(c[1], c[2], c[3], TitleB)
    \/ \E c \in DropDocCalls : SessionDropDoc(c[1], c[2])
    \/ \E valid_location_ids \in PruneCalls : SessionPruneLocations(valid_location_ids)
    \/ \E doc_ref \in {None, Some(DocRef(1, P_g))} : LastOpenDocSet(doc_ref)

SpecSession == Init /\ [][NextSession]_vars

(***************************************************************************)
(* Properties of the session                                               *)
(***************************************************************************)
\* the session under session_state, as it is in the table
StoredSession ==
    IF IsSome(app_settings.session_state) THEN app_settings.session_state[1]
    ELSE [tabs |-> << >>, active_tab_id |-> None, next_tab_id |-> 0]

TabIdsOf(tabs) == {tabs[i].id : i \in DOMAIN tabs}
HasTabFor(tabs, doc_ref) == \E i \in DOMAIN tabs : tabs[i].doc_ref = doc_ref

\* the session the last call returned
Returned == last.val

\* C31: session_open_tab(doc_ref) for a document that has a tab adds no tab
\* and makes a tab of the document active; for a document without a tab it
\* appends exactly one tab, of the document, under an id no tab had, makes it
\* active, and next_tab_id grows.
C31_OpenTabAddsAtMostOne ==
    [][Calls({"session_open_tab"}) =>
        LET pre == StoredSession
            post == last'.val
            doc_ref == DocRef(last'.loc, last'.path)
        IN IF HasTabFor(pre.tabs, doc_ref)
           THEN /\ post.tabs = pre.tabs
                /\ \E i \in DOMAIN post.tabs : /\ post.tabs[i].doc_ref = doc_ref
                                               /\ post.active_tab_id = Some(post.tabs[i].id)
           ELSE /\ Len(post.tabs) = Len(pre.tabs) + 1
                /\ SubSeq(post.tabs, 1, Len(pre.tabs)) = pre.tabs
                /\ post.tabs[Len(post.tabs)].doc_ref = doc_ref
                /\ post.tabs[Len(post.tabs)].id \notin TabIdsOf(pre.tabs)
                /\ post.active_tab_id = Some(post.tabs[Len(post.tabs)].id)
                /\ post.next_tab_id > pre.next_tab_id]_vars

\* the document opened had a tab that is not the last one and was not active,
\* and it is active now
C31_Witness ==
    /\ last.op = "session_open_tab"
    /\ last.out.before.active_tab_id # Returned.active_tab_id
    /\ Len(Returned.tabs) >= 2
    /\ \E i \in 1..(Len(Returned.tabs) - 1) :
          /\ Returned.tabs[i].doc_ref = DocRef(last.loc, last.path)
          /\ Returned.active_tab_id = Some(Returned.tabs[i].id)

\* a tab was opened after another was closed: the id of the closed tab is
\* not given again
C31_NewAfterCloseReached ==
    /\ last.op = "session_open_tab"
    /\ Len(Returned.tabs) = 2
    /\ Returned.tabs[2].id = TabId(3)
    /\ Returned.active_tab_id = Some(TabId(3))

SessionWrites == {"session_open_tab", "session_select_tab", "session_close_tab",
                  "session_reorder_tabs", "session_mark_tab_modified",
                  "session_update_tab_doc", "session_drop_doc", "session_prune_locations"}

\* the tabs of the stored session that have the active id
ActiveTabs ==
    {i \in DOMAIN StoredSession.tabs :
        StoredSession.active_tab_id = Some(StoredSession.tabs[i].id)}

\* last_open_doc names the document of the active tab, and is absent when
\* no tab is active
LastOpenDocFollowsActiveTab ==
    IF ActiveTabs = {}
    THEN app_settings.last_open_doc = None
    ELSE \A i \in ActiveTabs : app_settings.last_open_doc = Some(StoredSession.tabs[i].doc_ref)

\* C32: whenever a session operation stores the session, last_open_doc is
\* afterwards the doc_ref of the active tab, and is absent when the session
\* has no active tab.
C32_LastOpenDocFollowsSession ==
    [][(Calls(SessionWrites) /\ last'.out.persisted) => LastOpenDocFollowsActiveTab']_vars

\* a prune took the active tab away: the first tab left is active, and
\* last_open_doc names its document
C32_Witness ==
    /\ last.op = "session_prune_locations" /\ last.out.persisted
    /\ last.out.before.active_tab_id # StoredSession.active_tab_id
    /\ Len(StoredSession.tabs) >= 1
    /\ StoredSession.active_tab_id = Some(StoredSession.tabs[1].id)
    /\ \A i \in DOMAIN StoredSession.tabs : StoredSession.tabs[i].doc_ref.location_id \in last.arg
    /\ DocRef(2, AF) \notin {StoredSession.tabs[i].doc_ref : i \in DOMAIN StoredSession.tabs}
    /\ app_settings.last_open_doc = Some(StoredSession.tabs[1].doc_ref)

\* the last tab was dropped: last_open_doc is deleted
C32_ClearedReached ==
    /\ last.op = "session_drop_doc" /\ last.out.persisted
    /\ StoredSession.tabs = << >>
    /\ app_settings.last_open_doc = None

\* C33: session_close_tab(id) of the active tab makes active the tab that
\* follows the closed one, or the last tab left when the closed one was last,
\* or none when no tab is left; of another tab it leaves the active tab as it
\* is; of an id no tab has it changes nothing.
C33_CloseTabActivatesFollowing ==
    [][Calls({"session_close_tab"}) =>
        LET pre == StoredSession
            post == last'.val
            tab_id == last'.arg
            closed == {i \in DOMAIN pre.tabs : pre.tabs[i].id = tab_id}
        IN IF closed = {}
           THEN /\ post = session_get_locked(app_settings)
                /\ app_settings' = app_settings
           ELSE \A i \in closed :
                /\ post = StoredSession'
                /\ post.tabs = SubSeq(pre.tabs, 1, i - 1) \o SubSeq(pre.tabs, i + 1, Len(pre.tabs))
                /\ post.next_tab_id = pre.next_tab_id
                /\ post.active_tab_id =
                      IF Len(pre.tabs) = 1 THEN None
                      ELSE IF pre.active_tab_id # Some(tab_id) THEN pre.active_tab_id
                      ELSE IF i < Len(pre.tabs) THEN Some(pre.tabs[i + 1].id)
                      ELSE Some(pre.tabs[i - 1].id)]_vars

\* the active tab was closed with tabs on both sides: the one that followed
\* it is active
C33_Witness ==
    /\ last.op = "session_close_tab" /\ last.out.persisted
    /\ Returned.next_tab_id = 4
    /\ Len(Returned.tabs) = 2
    /\ Returned.tabs[1].id = TabId(1) /\ Returned.tabs[2].id = TabId(3)
    /\ last.arg = TabId(2)
    /\ last.out.before.active_tab_id = Some(TabId(2))
    /\ Returned.active_tab_id = Some(TabId(3))

\* the active tab was the last one: the tab before it is active
C33_LastClosedReached ==
    /\ last.op = "session_close_tab" /\ last.out.persisted
    /\ Len(Returned.tabs) = 2
    /\ last.arg = TabId(3)
    /\ last.out.before.active_tab_id = Some(TabId(3))
    /\ Returned.active_tab_id = Some(Returned.tabs[2].id)
    /\ Returned.next_tab_id = 4

\* C38: the session a session operation returns has tabs with non-empty,
\* pairwise distinct ids, and active_tab_id is absent exactly when there is
\* no tab and is otherwise the id of one of the tabs.
C38_ReturnedSessionWellFormed ==
    last.op \in SessionWrites =>
        /\ \A i \in DOMAIN Returned.tabs : Returned.tabs[i].id # << >>
        /\ \A i, j \in DOMAIN Returned.tabs :
              Returned.tabs[i].id = Returned.tabs[j].id => i = j
        /\ (Returned.active_tab_id = None) <=> (Returned.tabs = << >>)
        /\ IsSome(Returned.active_tab_id) => Returned.active_tab_id[1] \in TabIdsOf(Returned.tabs)

\* the active tab was dropped or pruned and tabs are left: another is active
C38_Witness ==
    /\ last.op \in {"session_drop_doc", "session_prune_locations"} /\ last.out.persisted
    /\ Returned.tabs # << >>
    /\ IsSome(last.out.before.active_tab_id)
    /\ last.out.before.active_tab_id[1] \notin TabIdsOf(Returned.tabs)
    /\ Returned.active_tab_id = Some(Returned.tabs[1].id)

(***************************************************************************)
(* Properties of a save that runs beside a reconcile                       *)
(***************************************************************************)
\* the step in which the operation op of thread t returns
ReturnsFrom(t, op) == tv[t].op = op /\ pc[t] # "idle" /\ pc'[t] = "idle"

\* after the step, the document has its catalog row and its index row
KeepsRows(l, rel) ==
    /\ << l, rel >> \in DOMAIN documents'
    /\ is_indexable_text_path(rel) => FtsCount(docs_fts', l, rel) = 1

\* C34: when a doc_save that returned Ok and a reconcile_location of the same
\* location ran on two threads and both have returned, the saved document,
\* whose file is on disk, has its catalog row and its index row.
C34_SaveSurvivesConcurrentReconcile ==
    [][ \A t, u \in Threads :
          (t # u /\ pc[u] = "idle" /\ last.res = "ok" /\ last.loc = tv[t].loc) =>
             /\ (ReturnsFrom(t, "reconcile_location") /\ last.op = "doc_save"
                 /\ IsFile(files', << locations[last.loc], last.path >>))
                   => KeepsRows(last.loc, last.path)
             /\ (ReturnsFrom(t, "doc_save") /\ last.op = "reconcile_location"
                 /\ last'.res = "ok" /\ IsFile(files', Target(t)))
                   => KeepsRows(tv[t].loc, tv[t].rel) ]_vars

(***************************************************************************)
(* The row doc_save writes and the row the scan writes                     *)
(***************************************************************************)
\* the columns of a catalog row that are derived from the path and the text
Derived(row) ==
    [is_conflict |-> row.is_conflict, encoding |-> row.encoding,
     line_ending |-> row.line_ending, title |-> row.title,
     word_count |-> row.word_count, content_hash |-> row.content_hash]

\* the docs_fts rows of a document, with their numbers
FtsRowsFor(fts, l, rel) ==
    [r \in {x \in DOMAIN fts : x.location_id = l /\ x.rel_path = rel} |-> fts[r]]

\* C35: reconcile_location, or reindex_document of the document, called right
\* after doc_save(doc, text) returned Ok, leaves the derived columns of doc's
\* catalog row and doc's docs_fts row as doc_save wrote them.
C35_ScanAgreesWithSave ==
    [][(/\ Calls({"reconcile_location", "reindex_document"})
        /\ last.op = "doc_save" /\ last.res = "ok"
        /\ last'.res = "ok" /\ last'.loc = last.loc
        /\ last'.op = "reindex_document" => Normal(last'.path) = Normal(last.path))
       => LET key == << last.loc, Normal(last.path) >>
          IN /\ key \in DOMAIN documents'
             /\ Derived(documents'[key]) = Derived(documents[key])
             /\ FtsRowsFor(docs_fts', key[1], key[2]) = FtsRowsFor(docs_fts, key[1], key[2])]_vars

(***************************************************************************)
(* Properties of search                                                    *)
(***************************************************************************)
\* C36: for every token, search gives no hit for a (location_id, rel_path)
\* without a catalog row, and gives one hit at most for each document.
C36_SearchHitsAreCataloguedOnce ==
    \A token \in SearchTokens(docs_fts) :
        \A key \in DOMAIN SearchHits(documents, docs_fts, token) :
            /\ key \in DOMAIN documents
            /\ SearchHits(documents, docs_fts, token)[key] = 1

(***************************************************************************)
(* Calls on a location that is not registered                              *)
(***************************************************************************)
LocationOps == {"doc_open", "doc_save", "doc_rename", "doc_move", "doc_delete",
                "dir_create", "dir_rename", "dir_move", "dir_delete",
                "reindex_document", "reconcile_location"}

\* C37: every document, directory, reindex and reconcile operation called
\* with a location id that is not registered returns NotFound and leaves the
\* disk, the catalog and the index as they were.
C37_UnregisteredLocationIsNotFound ==
    [][(Calls(LocationOps) /\ last'.loc \notin DOMAIN locations) =>
          /\ last'.res = "NotFound"
          /\ UNCHANGED << files, dirs, clock, documents, docs_fts >>]_vars

\* dir_create was called on a location that has been removed, for a directory
\* that is not there, while rows of the location are still in the catalog
C37_Witness ==
    /\ last.op = "dir_create" /\ last.res = "NotFound"
    /\ last.loc = 1 /\ last.loc \notin DOMAIN locations
    /\ last.path = D_n /\ ~IsDir(dirs, << "R1", D_n >>)
    /\ \E key \in DOMAIN documents : key[1] = 1

\* all of the operations have been refused in this way
C37_NeverRegisteredReached ==
    /\ last.op = "reconcile_location" /\ last.res = "NotFound" /\ last.loc = 3
    /\ 3 \notin DOMAIN locations

(***************************************************************************)
(* The watcher commands.  AppState.watchers maps a location id to the      *)
(* watcher of its root; the commands are not async and run one at a time.  *)
(***************************************************************************)
\* what a command returns and the watchers it leaves
Watching(res, val, ws) == [res |-> res, val |-> val, watchers |-> ws]

\* RecommendedWatcher::new and watcher.watch(&root_path, Recursive)
NewWatcher(root_path) == [root_path |-> root_path, created |-> nops + 1]

\* a mutant of watch_enable: the watcher of a watched location is replaced
watch_enable_replaces(location_id) ==
    IF ~Registered(location_id) THEN Watching("NotFound", FALSE, watchers)
    ELSE IF ~IsDir(dirs, << locations[location_id], RootDir >>)
    THEN Watching("Io", FALSE, watchers)
    ELSE Watching("ok", TRUE, Put(watchers, location_id, NewWatcher(locations[location_id])))

\* commands::watch_enable; watching a root that is not on disk fails
watch_enable(location_id) ==
    IF ~Registered(location_id) THEN Watching("NotFound", FALSE, watchers)
    ELSE IF location_id \in DOMAIN watchers THEN Watching("ok", FALSE, watchers)
    ELSE IF ~IsDir(dirs, << locations[location_id], RootDir >>)
    THEN Watching("Io", FALSE, watchers)
    ELSE Watching("ok", TRUE, Put(watchers, location_id, NewWatcher(locations[location_id])))

\* commands::watch_disable
watch_disable(location_id) ==
    Watching("ok", location_id \in DOMAIN watchers, Drop(watchers, {location_id}))

WatchReturns(call, o) ==
    /\ watchers' = o.watchers
    /\ last' = [NoCall EXCEPT !.op = call.op, !.loc = call.loc, !.res = o.res, !.val = o.val]
    /\ nops' = nops + 1
    /\ UNCHANGED << locations, sqlite_sequence, app_settings, files, dirs, clock, documents,
                    docs_fts, exts, pc, tv >>

WatchEnable(location_id) ==
    MayCall /\ WatchReturns(Call("watch_enable", location_id, << >>, << >>, << >>),
                            watch_enable(location_id))

WatchDisable(location_id) ==
    MayCall /\ WatchReturns(Call("watch_disable", location_id, << >>, << >>, << >>),
                            watch_disable(location_id))

\* commands::location_remove: the watcher is dropped, then the store removes
\* the location
LocationRemoveCommand(location_id) ==
    \E foreign_keys \in BOOLEAN :
        MayCall /\ CommandReturns(Call("location_remove", location_id, << >>, foreign_keys, << >>),
                                  location_remove(location_id, foreign_keys),
                                  Drop(watchers, {location_id}))

NextWatchers ==
    \/ \E id \in AllLocIds : WatchEnable(id)
    \/ \E id \in AllLocIds : WatchDisable(id)
    \/ \E id \in AllLocIds : LocationRemoveCommand(id)
    \/ \E root \in Roots : LocationAdd(root, FALSE)
    \/ \E root \in ExtRootRemovals : ExternalRemoveRoot(root)

SpecWatchers == Init /\ [][NextWatchers]_vars

(***************************************************************************)
(* Properties of the watcher commands                                      *)
(***************************************************************************)
WatchCommands == {"watch_enable", "watch_disable", "location_remove"}

\* C39: every watcher is the one watcher of a registered location;
\* watch_enable returns true exactly when it installs a watcher, and false,
\* keeping the watcher there is, when the location is watched; watch_disable
\* returns true exactly when it removed a watcher; location_remove leaves no
\* watcher for the location.
C39_OneWatcherPerRegisteredLocation ==
    [][Calls(WatchCommands) =>
        LET id == last'.loc IN
        /\ DOMAIN watchers' \subseteq DOMAIN locations'
        /\ \A other \in DOMAIN watchers' \ {id} :
              other \in DOMAIN watchers /\ watchers'[other] = watchers[other]
        /\ last'.op = "watch_enable" =>
              /\ (last'.res = "ok" /\ last'.val = TRUE)
                     <=> (id \notin DOMAIN watchers /\ id \in DOMAIN watchers')
              /\ id \in DOMAIN watchers =>
                     /\ last'.res = "ok" /\ last'.val = FALSE
                     /\ watchers' = watchers
              /\ id \in DOMAIN watchers' => watchers'[id].root_path = locations[id]
        /\ last'.op = "watch_disable" =>
              /\ last'.res = "ok"
              /\ last'.val = TRUE <=> (id \in DOMAIN watchers /\ id \notin DOMAIN watchers')
              /\ id \notin DOMAIN watchers'
        /\ last'.op = "location_remove" => id \notin DOMAIN watchers']_vars

\* watch_enable was called on a location that was watched: the watcher made
\* by the earlier call is still the one
C39_Witness ==
    /\ last.op = "watch_enable" /\ last.res = "ok" /\ last.val = FALSE
    /\ last.loc \in DOMAIN watchers
    /\ watchers[last.loc].created < nops

\* a watched location was removed: no watcher is left for it
C39_RemovedReached ==
    /\ last.op = "location_remove" /\ last.val = 1
    /\ \E id \in DOMAIN watchers : watchers[id].created < nops - 1
    /\ nops = 3 /\ Cardinality(DOMAIN watchers) = 1

(***************************************************************************)
(* Capture: handle_capture_submit in Append mode                           *)
(***************************************************************************)
Whitespace == {" ", "\n"}
TextBlank == << " " >>

\* the "\n\n" of format!("{}\n\n{}", existing_text, text)
BlankLine == << "\n", "\n" >>

\* text.trim().is_empty()
IsBlank(text) == \A i \in 1..Len(text) : text[i] \in Whitespace

\* capture::handle_capture_submit with mode = CaptureMode::Append: the text the
\* document opens with, or the empty text when doc_open fails, is put before the
\* captured text and the whole is saved
handle_capture_submit(text, target_location_id, append_target) ==
    IF IsBlank(text) THEN NoChange("InvalidPath")
    ELSE IF ~IsSome(target_location_id) /\ DOMAIN locations = {} THEN NoChange("NotFound")
    ELSE IF ~IsSome(append_target) THEN NoChange("InvalidPath")
    ELSE LET target == append_target[1]
             doc_id == normalize_relative_path(target.rel_path)
         IN IF ~doc_id.ok THEN NoChange(PathErrorCode(doc_id.err))
            ELSE LET opened == doc_open(target.location_id, doc_id.path)
                     existing_text == IF opened.res = "ok" THEN opened.out.text ELSE << >>
                     new_text == IF existing_text = << >> THEN text
                                 ELSE existing_text \o BlankLine \o text
                 IN doc_save(target.location_id, doc_id.path, new_text)

CaptureTexts == {TextA, TextB, TextBlank}
CaptureLocationIds == {None, Some(1)}
CaptureTargets == {None, Some(DocRef(1, P_f)), Some(DocRef(1, P_g)), Some(DocRef(1, P_u)),
                   Some(DocRef(1, NF)), Some(DocRef(2, P_f)), Some(DocRef(1, UpE)),
                   Some(DocRef(1, D_a))}
CaptureSaveCalls == {<< 1, P_g, TextBom >>, << 1, P_g, << >> >>}

CaptureSubmit(text, target_location_id, append_target) ==
    LET l == IF IsSome(append_target) THEN append_target[1].location_id ELSE 0
        path == IF IsSome(append_target) THEN append_target[1].rel_path ELSE << >>
    IN MayCall /\ Returns(Call("handle_capture_submit", l, path, target_location_id, text),
                          handle_capture_submit(text, target_location_id, append_target))

\* the capture specification: texts are captured onto documents that are
\* saved, written by other programs and whose locations are removed
NextCapture ==
    \/ \E text \in CaptureTexts, id \in CaptureLocationIds, target \in CaptureTargets :
           CaptureSubmit(text, id, target)
    \/ \E c \in CaptureSaveCalls : DocSave(c[1], c[2], c[3])
    \/ \E w \in ExtWrites : ExternalWrite(w[1], w[2], w[3])
    \/ \E id \in LocIds : LocationRemove(id)

SpecCapture == Init /\ [][NextCapture]_vars

\* C40: an Append-mode capture never discards the content of its target: after
\* a successful submit the target holds its previous text, a blank line and the
\* captured text (only the captured text when the target was absent or empty),
\* and also when the existing document could not be read its content is still
\* at the head of the file.
C40_AppendKeepsExistingContent ==
    [][ (Calls({"handle_capture_submit"}) /\ last'.res = "ok") =>
          LET k == << locations[last'.loc], Normal(last'.path) >>
              read == IF IsFile(files, k) THEN detect_and_decode(files[k].bytes)
                      ELSE Decoded(<< >>)
              previous == IF read.ok THEN read.text ELSE files[k].bytes.words
          IN /\ IsFile(files', k)
             /\ files'[k].bytes.words = IF previous = << >> THEN last'.text
                                        ELSE previous \o BlankLine \o last'.text ]_vars

\* the same for the targets doc_open can read
C40_ReadableTargetIsKept ==
    [][ (Calls({"handle_capture_submit"}) /\ last'.res = "ok") =>
          LET k == << locations[last'.loc], Normal(last'.path) >>
              read == IF IsFile(files, k) THEN detect_and_decode(files[k].bytes)
                      ELSE Decoded(<< >>)
          IN read.ok =>
             /\ IsFile(files', k)
             /\ files'[k].bytes.words = IF read.text = << >> THEN last'.text
                                        ELSE read.text \o BlankLine \o last'.text ]_vars

\* a capture was appended to a document that had text
C40_AppendedReached ==
    /\ last.op = "handle_capture_submit" /\ last.res = "ok"
    /\ last.loc = 1 /\ last.path = P_g /\ last.text = TextB
    /\ files[<< "R1", P_g >>].bytes.words = TextA \o BlankLine \o TextB

====
